---- MODULE Spec2Model ----
(***************************************************************************)
(* Model of the per-IMEI command queue of ambrogio_mower_commands          *)
(* (queue.py): CommandQueue.submit / ensure_worker / stop, the worker      *)
(* coroutine _worker and the retry / re-authentication policy of _run.     *)
(* One step of the model is one run of a coroutine from one suspension     *)
(* point (await of the remote call, of the re-auth callback, of a sleep,   *)
(* of an empty queue, of a future) to the next, as the asyncio event loop  *)
(* schedules it.                                                           *)
(* The other components of the integration (the entry lifecycle of         *)
(* __init__.py, the service layer of services.py, the provisioning loop of *)
(* config_flow.py) have their own specifications; the one studied is held  *)
(* in the variable `integration`, which the queue's actions leave          *)
(* unchanged.                                                              *)
(***************************************************************************)
EXTENDS Integers, Sequences, FiniteSets, TLC

\* ---------------------------------------------------------------- bounds
\* number of submit() calls explored
MaxCmds == 2

\* number of _apply_state calls explored
MaxApplies == 2

\* largest timeout value (in seconds) drawn for Command.timeout and for the
\* timeout argument of submit()
MaxTimeout == 8

\* ------------------------------------------------------------- constants
\* _provision_client_and_validate: `for attempt in range(1, 11)`
AuthAttempts == 10

\* the robot_client1 .. robot_client5 attributes tried: `range(1, 6)`
ClientSlots == 5

\* CommandQueue.__init__: max_retries: int = 2
MaxRetries == 2

\* the identities (IMEIs) commands are addressed to
IMEIS == {"A", "B"}

\* Command.op values submitted by callers ("__stop__" is pushed by stop())
OPS == {"method.exec", "delay"}

\* queue item standing for Command(op="__stop__", imei=imei), future None
STOP == 0

\* submit: `timeout: float | None = 30.0`
DefaultTimeout == 30

\* Python's None as a timeout value (Command.timeout's default; to
\* asyncio.wait_for it means no deadline)
None == -1

\* the caller of submit() passes no timeout argument
Omitted == -2

\* submit() has not reached its wait_for yet
NotComputed == -3

\* asyncio.Future of a command: None, pending, set_result, set_exception,
\* or cancelled by asyncio.wait_for on timeout
NoFuture == [state |-> "none", kind |-> "none", val |-> 0]
NewFuture == [state |-> "pending", kind |-> "none", val |-> 0]

\* the config entries set up and unloaded
EntryIds == {"e1", "e2", "e3"}

\* const.py: the ten SERVICE_* names registered under the domain
SERVICES == {"set_profile", "work_now", "border_cut", "charge_now",
             "charge_until", "trace_position", "keep_out", "wake_up",
             "thing_find", "thing_list"}

\* a Python dict, and the empty dict {}
Dict(d) == [type |-> "dict", val |-> d]
EmptyDict == [k \in {} |-> TRUE]

\* Python values handed to _apply_state: None, a float (coordinates are
\* counted in units of 1e-7 degree), the float nan, a str, a bool
PyNone == [type |-> "NoneType"]
Num(v) == [type |-> "float", num |-> v]
NaN == [type |-> "nan"]
Str(x) == [type |-> "str", str |-> x]
Bool(b) == [type |-> "bool", bool |-> b]

\* async_setup_entry: the KEY_STATE dict, every value None (the key
\* position_source is absent, store.get gives None)
EmptyStore ==
    [latitude |-> PyNone, longitude |-> PyNone, connected |-> PyNone,
     loc_updated |-> PyNone, position_source |-> PyNone, info |-> PyNone,
     source |-> PyNone]

\* _apply_state has not been called
NoApply == [args |-> PyNone, ret |-> FALSE, n |-> 0]

\* client.call has not been invoked
NoCall == [command |-> "", params |-> EmptyDict]

\* Command(op="", imei=""): params defaults to the empty dict
NoCommand == [op |-> "", imei |-> "", params |-> EmptyDict]

\* _flags: return_response defaults to True, log_response to False; no
\* awaitable has been handed to _exec
NoExec == [outcome |-> [kind |-> "none"],
           return_response |-> TRUE, log_response |-> FALSE]

\* _exec has not returned yet
NotRun == [type |-> "not_run"]

\* no thing_find / thing_list handler has run yet
NoDirect == [pc |-> "idle", imei |-> "none", result |-> "none"]

VARIABLES
    on_reauth,          \* self._on_reauth is configured (truthy)
    rate_delay,         \* self._rate_delay
    retry_backoff_base, \* self._retry_backoff_base
    queues,             \* self._queues : imei -> sequence of queued items
    workers,            \* self._workers : imei -> task (index into tasks)
    tasks,              \* every asyncio task created for _worker
    stopped,            \* self._stopped is set
    cmds,               \* the Command objects submitted, in submission order
    callers,            \* position of each submit() coroutine
    stopPc,             \* position of the stop() coroutine
    stopTasks,          \* tasks stop() gathers
    cmd_timeout,        \* submit under study: cmd.timeout
    timeout_arg,        \* submit under study: the timeout argument passed
    eff_timeout,        \* submit under study: eff_timeout given to wait_for
    integration         \* the component studied beside the queue, if any

\* the variables of the submit() whose deadline is studied on its own
deadline == <<cmd_timeout, timeout_arg, eff_timeout>>

\* The component of the integration studied beside the queue is held in one
\* record; its fields are the component's state.
\* the entry lifecycle of __init__.py and the service registry:
\* hass.data[DOMAIN] (entry ids stored, the flag key)
hass_data == integration.hass_data
\* hass.services: names registered under the domain
services == integration.services
\* how often the registration block of services.py ran
reg_count == integration.reg_count
\* position of each entry's setup / unload coroutine
entry_pc == integration.entry_pc

\* the thing_find / thing_list handler and its call
direct == integration.direct

\* the _exec call studied on its own: outcome of the awaitable and flags;
\* what _exec returned or raised
exec_call == integration.exec_call
exec_ret == integration.exec_ret

\* the entry's state store (KEY_STATE)
store == integration.store
\* SIGNAL_STATE_UPDATED dispatcher signals sent
signals == integration.signals
\* the last _apply_state call: arguments, result, number of calls so far
apply_last == integration.apply_last

\* the single attempt of _run studied on its own: the Command (op, imei,
\* params); "ready", then "done"; the client.call it made
run_cmd == integration.run_cmd
run_pc == integration.run_pc
client_call == integration.client_call

\* _provision_client_and_validate of config_flow.py: its position
prov_pc == integration.prov_pc
\* its loop variable `attempt`
prov_attempt == integration.prov_attempt
\* its client_key: None, or the candidate accepted
client_key == integration.client_key
\* calls of client.authenticate_app it has made
auth_calls == integration.auth_calls
\* of which raised AmbroAuthError
auth_errors == integration.auth_errors
\* total of its asyncio.sleep calls, in 0.1 s
slept == integration.slept
\* index of the robot_client slot chosen, 0 if none
chosen_key == integration.chosen_key
\* the error code or "ok" it returned
prov_result == integration.prov_result

vars == <<on_reauth, rate_delay, retry_backoff_base, queues, workers, tasks,
          stopped, cmds, callers, stopPc, stopTasks, deadline, integration>>

config == <<on_reauth, rate_delay, retry_backoff_base>>

\* ------------------------------------------------------------- helpers

CmdIds == 1..Len(cmds)

\* asyncio.Future.done()
Done(f) == f.state \in {"result", "exception", "cancelled"}

\* asyncio.Task.done() of a worker task: it returned, or ended cancelled
TaskDone(t) == tasks[t].pc \in {"done", "cancelled"}

\* a task running _worker(imei, q): where it is suspended (pc), the command it
\* holds, _run's attempt counter, how many AmbroAuthErrors _run caught and
\* how many times it awaited self._on_reauth() for that command, and the
\* duration of the backoff sleep it is in
NewTask(i) == [imei |-> i, pc |-> "start", cmd |-> 0, attempt |-> 0,
               auths |-> 0, reauths |-> 0, exiting |-> FALSE, sleep |-> 0]

\* variant of HasLiveWorker: a registered worker counts as live, finished or
\* not
WorkerRegistered(i) == i \in DOMAIN workers

\* variant of HasLiveWorker: one worker is shared, a live worker of any
\* identity counts
AnyLiveWorker(i) ==
    \E j \in DOMAIN workers : tasks[workers[j]].pc \notin {"done", "cancelled"}

\* variant of HasLiveWorker: the liveness test is lost and every submit
\* spawns a worker
NoLiveWorker(i) == FALSE

\* ensure_worker: `imei in self._workers and not self._workers[imei].done()`
HasLiveWorker(i) == i \in DOMAIN workers /\ ~TaskDone(workers[i])

\* variant of Put: the item goes to the front of the queue
PutFront(q, c) == <<c>> \o q

\* asyncio.Queue.put / put_nowait: append at the tail
Put(q, c) == Append(q, c)

\* variant of MaySet: the `not cmd.future.done()` test is lost
MaySetAnyFuture(f) == f.state # "none"

\* _worker: `if cmd.future and not cmd.future.done()`
MaySet(f) == f.state # "none" /\ ~Done(f)

\* variant of SetFuture: only results are set, a failure is lost
SetFutureResultOnly(cs, c, st, kind, v) ==
    IF cs[c].future.state = "pending" /\ st = "result"
    THEN [cs EXCEPT ![c].future = [state |-> st, kind |-> kind, val |-> v]]
    ELSE cs

\* variant of SetFuture: a failure is wrapped in a generic error
SetFutureWrapped(cs, c, st, kind, v) ==
    IF cs[c].future.state = "pending"
    THEN [cs EXCEPT ![c].future =
            [state |-> st,
             kind |-> IF st = "exception" THEN "wrapped" ELSE kind,
             val |-> v]]
    ELSE cs

\* _worker: cmd.future.set_result / set_exception under the guard
SetFuture(cs, c, st, kind, v) ==
    IF MaySet(cs[c].future)
    THEN [cs EXCEPT ![c].future = [state |-> st, kind |-> kind, val |-> v]]
    ELSE cs

\* variant of MayRetry: strict comparison without the + 1
MayRetryStrict(attempt) == attempt < MaxRetries

\* variant of BackoffDelay: the sleep does not grow with the attempt
BackoffDelayFlat(attempt) == retry_backoff_base

\* _run: asyncio.sleep(self._retry_backoff_base * attempt)
BackoffDelay(attempt) == retry_backoff_base * attempt

\* _run: `attempt <= self._max_retries + 1` decides whether to `continue`
MayRetry(attempt) == attempt <= MaxRetries + 1

\* the task returns from _worker
Exit(tk) == [tk EXCEPT !.pc = "done", !.cmd = 0, !.attempt = 0,
                       !.auths = 0, !.reauths = 0, !.exiting = FALSE,
                       !.sleep = 0]

\* variant of Dequeue: a command nobody waits for is dropped
DequeueSkipNoFuture(t) ==
    LET i == tasks[t].imei
        c == Head(queues[i])
    IN  /\ queues' = [queues EXCEPT ![i] = Tail(@)]
        /\ tasks' = [tasks EXCEPT ![t] =
              IF c = STOP
              THEN IF rate_delay > 0
                   THEN [Exit(@) EXCEPT !.pc = "pace", !.exiting = TRUE]
                   ELSE Exit(@)
              ELSE IF cmds[c].future.state = "none"
              THEN [Exit(@) EXCEPT !.pc = "start"]
              ELSE IF cmds[c].op = "delay"
              THEN [Exit(@) EXCEPT !.pc = "delay", !.cmd = c]
              ELSE [Exit(@) EXCEPT !.pc = "call", !.cmd = c, !.attempt = 1]]

\* variant of Dequeue: a command whose future was cancelled is dropped
DequeueSkipCancelled(t) ==
    LET i == tasks[t].imei
        c == Head(queues[i])
    IN  /\ queues' = [queues EXCEPT ![i] = Tail(@)]
        /\ tasks' = [tasks EXCEPT ![t] =
              IF c = STOP
              THEN IF rate_delay > 0
                   THEN [Exit(@) EXCEPT !.pc = "pace", !.exiting = TRUE]
                   ELSE Exit(@)
              ELSE IF cmds[c].future.state = "cancelled"
              THEN [Exit(@) EXCEPT !.pc = "start"]
              ELSE IF cmds[c].op = "delay"
              THEN [Exit(@) EXCEPT !.pc = "delay", !.cmd = c]
              ELSE [Exit(@) EXCEPT !.pc = "call", !.cmd = c, !.attempt = 1]]

\* variant of Dequeue: "delay" is not special, it falls through to the remote
\* call like any other op
DequeueDelayAsCall(t) ==
    LET i == tasks[t].imei
        c == Head(queues[i])
    IN  /\ queues' = [queues EXCEPT ![i] = Tail(@)]
        /\ tasks' = [tasks EXCEPT ![t] =
              IF c = STOP
              THEN IF rate_delay > 0
                   THEN [Exit(@) EXCEPT !.pc = "pace", !.exiting = TRUE]
                   ELSE Exit(@)
              ELSE [Exit(@) EXCEPT !.pc = "call", !.cmd = c, !.attempt = 1]]

\* _worker lines 85-91: take the head item and start it.  The sentinel makes
\* the worker return (through the finally block, which paces first when
\* rate_delay > 0); "delay" sleeps; every other op is attempt 1 of the remote
\* call.
Dequeue(t) ==
    LET i == tasks[t].imei
        c == Head(queues[i])
    IN  /\ queues' = [queues EXCEPT ![i] = Tail(@)]
        /\ tasks' = [tasks EXCEPT ![t] =
              IF c = STOP
              THEN IF rate_delay > 0
                   THEN [Exit(@) EXCEPT !.pc = "pace", !.exiting = TRUE]
                   ELSE Exit(@)
              ELSE IF cmds[c].op = "delay"
              THEN [Exit(@) EXCEPT !.pc = "delay", !.cmd = c]
              ELSE [Exit(@) EXCEPT !.pc = "call", !.cmd = c, !.attempt = 1]]

\* _worker line 84-85: `while not self._stopped.is_set(): cmd = await q.get()`
LoopHead(t) ==
    LET i == tasks[t].imei
    IN  IF stopped
        THEN /\ tasks' = [tasks EXCEPT ![t] = Exit(@)]
             /\ UNCHANGED queues
        ELSE IF queues[i] = <<>>
        THEN /\ tasks' = [tasks EXCEPT ![t] = [Exit(@) EXCEPT !.pc = "get"]]
             /\ UNCHANGED queues
        ELSE Dequeue(t)

\* variant of Finish: the future is set without looking at done(), and the
\* InvalidStateError of a cancelled future ends the worker
FinishFailsOnCancelled(t, st, kind, v) ==
    /\ cmds' = SetFuture(cmds, tasks[t].cmd, st, kind, v)
    /\ IF cmds[tasks[t].cmd].future.state = "cancelled"
       THEN /\ tasks' = [tasks EXCEPT ![t] = Exit(@)]
            /\ UNCHANGED queues
       ELSE IF rate_delay > 0
       THEN /\ tasks' = [tasks EXCEPT ![t] = [Exit(@) EXCEPT !.pc = "pace"]]
            /\ UNCHANGED queues
       ELSE LoopHead(t)

\* variant of Finish: an exception is set on the future and then escapes
\* from the worker loop, so the task ends
FinishRaises(t, st, kind, v) ==
    /\ cmds' = SetFuture(cmds, tasks[t].cmd, st, kind, v)
    /\ IF st = "exception"
       THEN /\ tasks' = [tasks EXCEPT ![t] = Exit(@)]
            /\ UNCHANGED queues
       ELSE IF rate_delay > 0
       THEN /\ tasks' = [tasks EXCEPT ![t] = [Exit(@) EXCEPT !.pc = "pace"]]
            /\ UNCHANGED queues
       ELSE LoopHead(t)

\* _worker lines 92-103: the command ended with a result or an exception:
\* settle its future under the guard, run the finally block (pace when
\* rate_delay > 0), and go back to the loop head.
Finish(t, st, kind, v) ==
    /\ cmds' = SetFuture(cmds, tasks[t].cmd, st, kind, v)
    /\ IF rate_delay > 0
       THEN /\ tasks' = [tasks EXCEPT ![t] = [Exit(@) EXCEPT !.pc = "pace"]]
            /\ UNCHANGED queues
       ELSE LoopHead(t)

\* variant of Retry: a retry after a successful re-authentication is free, it
\* does not count as an attempt
RetryNoCountAfterReauth(t, tk) ==
    /\ tasks' = [tasks EXCEPT ![t] =
          IF tk.pc = "reauth"
          THEN [tk EXCEPT !.pc = "call", !.sleep = 0]
          ELSE [tk EXCEPT !.pc = "call", !.attempt = @ + 1, !.sleep = 0]]
    /\ UNCHANGED <<queues, cmds>>

\* _run: `continue` -> next iteration: attempt += 1 and call the client again
Retry(t, tk) ==
    /\ tasks' = [tasks EXCEPT ![t] =
          [tk EXCEPT !.pc = "call", !.attempt = @ + 1, !.sleep = 0]]
    /\ UNCHANGED <<queues, cmds>>

\* ---------------------------------------------------------------- Init
\* the queue is studied alone
NoComponent == [component |-> "none"]

\* async_setup: hass.data.setdefault(DOMAIN, {}); no entry set up yet, no
\* service registered
LifecycleIdle ==
    [component |-> "lifecycle",
     hass_data |-> [present |-> TRUE, entries |-> {}, flag |-> FALSE],
     services |-> {},
     reg_count |-> 0,
     entry_pc |-> [e \in EntryIds |-> "not_loaded"]]

\* no service handler is running
HandlersIdle == [component |-> "handlers", direct |-> NoDirect]

\* the state store as async_setup_entry creates it; _apply_state has not
\* been called
SensorsIdle ==
    [component |-> "sensors", store |-> EmptyStore, signals |-> 0,
     apply_last |-> NoApply]

\* _provision_client_and_validate has not been called
ProvisioningIdle ==
    [component |-> "provisioning", prov_pc |-> "start", prov_attempt |-> 0,
     client_key |-> None, auth_calls |-> 0, auth_errors |-> 0, slept |-> 0,
     chosen_key |-> 0, prov_result |-> "none"]

Init ==
    /\ on_reauth \in BOOLEAN
    /\ rate_delay \in {0, 1}
    /\ retry_backoff_base \in {0, 2}
    /\ queues = <<>>
    /\ workers = <<>>
    /\ tasks = <<>>
    /\ stopped = FALSE
    /\ cmds = <<>>
    /\ callers = <<>>
    /\ stopPc = "idle"
    /\ stopTasks = {}
    /\ cmd_timeout = None
    /\ timeout_arg = Omitted
    /\ eff_timeout = NotComputed
    /\ integration = NoComponent

\* ------------------------------------------------------------- actions

\* variant of Submit: ensure_worker gives a new worker a new queue, the old
\* queue of the identity is replaced
SubmitFreshQueue(i, op, wait) ==
    /\ Len(cmds) < MaxCmds
    /\ LET c == Len(cmds) + 1
           q == IF HasLiveWorker(i) THEN queues[i] ELSE <<>>
       IN  /\ IF HasLiveWorker(i)
              THEN UNCHANGED <<workers, tasks>>
              ELSE /\ tasks' = Append(tasks, NewTask(i))
                   /\ workers' = [j \in DOMAIN workers \cup {i} |->
                                    IF j = i THEN Len(tasks) + 1
                                    ELSE workers[j]]
           /\ cmds' = Append(cmds, [op |-> op, imei |-> i,
                        future |-> IF wait THEN NewFuture ELSE NoFuture])
           /\ queues' = [j \in DOMAIN queues \cup {i} |->
                           IF j = i THEN Put(q, c) ELSE queues[j]]
           /\ callers' = Append(callers,
                                IF wait THEN "waiting" ELSE "returned")
    /\ UNCHANGED <<integration, deadline, config, stopped, stopPc, stopTasks>>

\* CommandQueue.submit (with ensure_worker): runs without suspension up to
\* the await of the future.
Submit(i, op, wait) ==
    /\ Len(cmds) < MaxCmds
    /\ LET c == Len(cmds) + 1
           q == IF i \in DOMAIN queues THEN queues[i] ELSE <<>>
       IN  /\ IF HasLiveWorker(i)
              THEN UNCHANGED <<workers, tasks>>
              ELSE /\ tasks' = Append(tasks, NewTask(i))
                   /\ workers' = [j \in DOMAIN workers \cup {i} |->
                                    IF j = i THEN Len(tasks) + 1
                                    ELSE workers[j]]
           /\ cmds' = Append(cmds, [op |-> op, imei |-> i,
                        future |-> IF wait THEN NewFuture ELSE NoFuture])
           /\ queues' = [j \in DOMAIN queues \cup {i} |->
                           IF j = i THEN Put(q, c) ELSE queues[j]]
           /\ callers' = Append(callers,
                                IF wait THEN "waiting" ELSE "returned")
    /\ UNCHANGED <<integration, deadline, config, stopped, stopPc, stopTasks>>

\* a new worker task is scheduled for the first time
WorkerStart(t) ==
    /\ tasks[t].pc = "start"
    /\ LoopHead(t)
    /\ UNCHANGED <<integration, deadline, config,
                   workers, stopped, cmds, callers, stopPc, stopTasks>>

\* a worker blocked in `await q.get()` is woken by a put
WorkerGet(t) ==
    /\ tasks[t].pc = "get"
    /\ queues[tasks[t].imei] # <<>>
    /\ Dequeue(t)
    /\ UNCHANGED <<integration, deadline, config,
                   workers, stopped, cmds, callers, stopPc, stopTasks>>

\* self._client.call returns a payload
CallOk(t) ==
    /\ tasks[t].pc = "call"
    /\ Finish(t, "result", "ok", tasks[t].attempt)
    /\ UNCHANGED <<integration, deadline, config,
                   workers, stopped, callers, stopPc, stopTasks>>

\* variant of CallAuthError: with no callback configured the AmbroAuthError
\* is handled as the AmbroClientError it also is, and retried
CallAuthErrorAsClientError(t) ==
    /\ tasks[t].pc = "call"
    /\ IF on_reauth
       THEN /\ tasks' = [tasks EXCEPT ![t] =
                  [@ EXCEPT !.pc = "reauth", !.auths = @ + 1,
                            !.reauths = @ + 1]]
            /\ UNCHANGED <<queues, cmds>>
       ELSE IF MayRetry(tasks[t].attempt)
       THEN Retry(t, tasks[t])
       ELSE Finish(t, "exception", "auth", tasks[t].attempt)
    /\ UNCHANGED <<integration, deadline, config,
                   workers, stopped, callers, stopPc, stopTasks>>

\* variant of CallAuthError: re-authentication is serialized, the callback is
\* not invoked while another worker's re-authentication is in progress
CallAuthErrorLocked(t) ==
    /\ tasks[t].pc = "call"
    /\ IF on_reauth
       THEN /\ \A u \in 1..Len(tasks) : tasks[u].pc # "reauth"
            /\ tasks' = [tasks EXCEPT ![t] =
                  [@ EXCEPT !.pc = "reauth", !.auths = @ + 1,
                            !.reauths = @ + 1]]
            /\ UNCHANGED <<queues, cmds>>
       ELSE Finish(t, "exception", "auth", tasks[t].attempt)
    /\ UNCHANGED <<integration, deadline, config,
                   workers, stopped, callers, stopPc, stopTasks>>

\* self._client.call raises AmbroAuthError: _run awaits self._on_reauth()
\* when one is configured, else re-raises
CallAuthError(t) ==
    /\ tasks[t].pc = "call"
    /\ IF on_reauth
       THEN /\ tasks' = [tasks EXCEPT ![t] =
                  [@ EXCEPT !.pc = "reauth", !.auths = @ + 1,
                            !.reauths = @ + 1]]
            /\ UNCHANGED <<queues, cmds>>
       ELSE Finish(t, "exception", "auth", tasks[t].attempt)
    /\ UNCHANGED <<integration, deadline, config,
                   workers, stopped, callers, stopPc, stopTasks>>

\* variant of ReauthReturn: the callback's answer is ignored and the command
\* is retried while the budget lasts
ReauthReturnRetryAlways(t, ok) ==
    /\ tasks[t].pc = "reauth"
    /\ IF MayRetry(tasks[t].attempt)
       THEN Retry(t, tasks[t])
       ELSE Finish(t, "exception", "auth", tasks[t].attempt)
    /\ UNCHANGED <<integration, deadline, config,
                   workers, stopped, callers, stopPc, stopTasks>>

\* self._on_reauth() returns ok (an exception inside it counts as False)
ReauthReturn(t, ok) ==
    /\ tasks[t].pc = "reauth"
    /\ IF ok /\ MayRetry(tasks[t].attempt)
       THEN Retry(t, tasks[t])
       ELSE Finish(t, "exception", "auth", tasks[t].attempt)
    /\ UNCHANGED <<integration, deadline, config,
                   workers, stopped, callers, stopPc, stopTasks>>

\* self._client.call raises an AmbroClientError that is not an AmbroAuthError
\* (AmbroTransportError, or the base class for a server-reported failure)
CallClientError(t, kind) ==
    /\ tasks[t].pc = "call"
    /\ IF MayRetry(tasks[t].attempt)
       THEN IF retry_backoff_base > 0
            THEN /\ tasks' = [tasks EXCEPT ![t] =
                       [@ EXCEPT !.pc = "backoff",
                                 !.sleep = BackoffDelay(tasks[t].attempt)]]
                 /\ UNCHANGED <<queues, cmds>>
            ELSE Retry(t, tasks[t])
       ELSE Finish(t, "exception", kind, tasks[t].attempt)
    /\ UNCHANGED <<integration, deadline, config,
                   workers, stopped, callers, stopPc, stopTasks>>

\* asyncio.sleep(self._retry_backoff_base * attempt) is over
BackoffWake(t) ==
    /\ tasks[t].pc = "backoff"
    /\ Retry(t, tasks[t])
    /\ UNCHANGED <<integration, deadline, config,
                   workers, stopped, callers, stopPc, stopTasks>>

\* variant of CallUnexpected: any exception of the call is retried like a
\* client error
CallUnexpectedRetried(t) ==
    /\ tasks[t].pc = "call"
    /\ IF MayRetry(tasks[t].attempt)
       THEN Retry(t, tasks[t])
       ELSE Finish(t, "exception", "unexpected", tasks[t].attempt)
    /\ UNCHANGED <<integration, deadline, config,
                   workers, stopped, callers, stopPc, stopTasks>>

\* self._client.call raises an exception that is no AmbroClientError
CallUnexpected(t) ==
    /\ tasks[t].pc = "call"
    /\ Finish(t, "exception", "unexpected", tasks[t].attempt)
    /\ UNCHANGED <<integration, deadline, config,
                   workers, stopped, callers, stopPc, stopTasks>>

\* self._client.call never returns
CallHangs(t) ==
    /\ tasks[t].pc = "call"
    /\ tasks' = [tasks EXCEPT ![t] = [@ EXCEPT !.pc = "hung"]]
    /\ UNCHANGED <<integration, deadline, config,
                   queues, workers, stopped, cmds, callers, stopPc,
                   stopTasks>>

\* _run, op "delay": asyncio.sleep(seconds) is over, return None
DelayWake(t) ==
    /\ tasks[t].pc = "delay"
    /\ Finish(t, "result", "none", 0)
    /\ UNCHANGED <<integration, deadline, config,
                   workers, stopped, callers, stopPc, stopTasks>>

\* _worker finally block: asyncio.sleep(self._rate_delay) is over
PaceWake(t) ==
    /\ tasks[t].pc = "pace"
    /\ IF tasks[t].exiting
       THEN /\ tasks' = [tasks EXCEPT ![t] = Exit(@)]
            /\ UNCHANGED queues
       ELSE LoopHead(t)
    /\ UNCHANGED <<integration, deadline, config,
                   workers, stopped, cmds, callers, stopPc, stopTasks>>

\* CommandQueue.stop up to its await of asyncio.gather
Stop ==
    /\ stopPc = "idle"
    /\ stopped' = TRUE
    /\ queues' = [i \in DOMAIN queues |-> Put(queues[i], STOP)]
    /\ stopTasks' = {workers[i] : i \in DOMAIN workers}
    /\ stopPc' = IF DOMAIN workers = {} THEN "returned" ELSE "waiting"
    /\ UNCHANGED <<integration, deadline, config, workers, tasks, cmds, callers>>

\* variant of GatherOutcome: return_exceptions is left at False, and the
\* CancelledError of a cancelled worker is raised into stop()
GatherRaises(ts) ==
    IF \E t \in ts : tasks[t].pc = "cancelled" THEN "failed" ELSE "returned"

\* asyncio.gather(*tasks, return_exceptions=True): the exception of a task
\* that ended with one (a cancelled worker's CancelledError) is one of the
\* values returned, so stop() returns normally
GatherOutcome(ts) == "returned"

\* asyncio.gather(*tasks, return_exceptions=True) completes
StopReturn ==
    /\ stopPc = "waiting"
    /\ \A t \in stopTasks : TaskDone(t)
    /\ stopPc' = GatherOutcome(stopTasks)
    /\ UNCHANGED <<integration, deadline, config,
                   queues, workers, tasks, stopped, cmds, callers,
                   stopTasks>>

\* variant of Timeout: the deadline only counts while the command is queued,
\* once a worker has taken it the caller waits for the outcome
TimeoutWhileQueued(c) ==
    /\ callers[c] = "waiting"
    /\ ~Done(cmds[c].future)
    /\ \E k \in 1..Len(queues[cmds[c].imei]) : queues[cmds[c].imei][k] = c
    /\ cmds' = [cmds EXCEPT ![c].future =
                  [state |-> "cancelled", kind |-> "none", val |-> 0]]
    /\ callers' = [callers EXCEPT ![c] = "timeout"]
    /\ UNCHANGED <<integration, deadline, config,
                   queues, workers, tasks, stopped, stopPc, stopTasks>>

\* submit: asyncio.wait_for(cmd.future, timeout) reaches its deadline and
\* cancels the future
Timeout(c) ==
    /\ callers[c] = "waiting"
    /\ ~Done(cmds[c].future)
    /\ cmds' = [cmds EXCEPT ![c].future =
                  [state |-> "cancelled", kind |-> "none", val |-> 0]]
    /\ callers' = [callers EXCEPT ![c] = "timeout"]
    /\ UNCHANGED <<integration, deadline, config,
                   queues, workers, tasks, stopped, stopPc, stopTasks>>

\* submit: asyncio.wait_for returns the future's result or raises its exception
Receive(c) ==
    /\ callers[c] = "waiting"
    /\ cmds[c].future.state \in {"result", "exception"}
    /\ callers' = [callers EXCEPT ![c] = cmds[c].future.state]
    /\ UNCHANGED <<integration, deadline, config,
                   queues, workers, tasks, stopped, cmds, stopPc,
                   stopTasks>>

Next ==
    \/ \E i \in IMEIS, op \in OPS, wait \in BOOLEAN : Submit(i, op, wait)
    \/ \E t \in 1..Len(tasks) : WorkerStart(t)
    \/ \E t \in 1..Len(tasks) : WorkerGet(t)
    \/ \E t \in 1..Len(tasks) : CallOk(t)
    \/ \E t \in 1..Len(tasks) : CallAuthError(t)
    \/ \E t \in 1..Len(tasks), ok \in BOOLEAN : ReauthReturn(t, ok)
    \/ \E t \in 1..Len(tasks), kind \in {"transport", "api"} :
          CallClientError(t, kind)
    \/ \E t \in 1..Len(tasks) : BackoffWake(t)
    \/ \E t \in 1..Len(tasks) : CallUnexpected(t)
    \/ \E t \in 1..Len(tasks) : CallHangs(t)
    \/ \E t \in 1..Len(tasks) : DelayWake(t)
    \/ \E t \in 1..Len(tasks) : PaceWake(t)
    \/ Stop
    \/ StopReturn
    \/ \E c \in CmdIds : Timeout(c)
    \/ \E c \in CmdIds : Receive(c)

Spec == Init /\ [][Next]_vars

\* the worker task ends cancelled (_worker lines 104-106)
Cancelled(tk) == [Exit(tk) EXCEPT !.pc = "cancelled"]

\* Task.cancel() on a worker task (the queue itself never cancels one; the
\* event loop's owner may).  CancelledError is no Exception: it passes the
\* `except Exception` of _run and _worker, so the command in hand keeps its
\* future as it is; the finally block still runs and, when rate_delay > 0,
\* sleeps before the error goes on to `except asyncio.CancelledError: raise`.
\* Cancelled while in q.get(), before its first run or in the pacing sleep,
\* the task ends at once.
CancelWorker(t) ==
    /\ ~TaskDone(t)
    /\ tasks' = [tasks EXCEPT ![t] =
          IF /\ tasks[t].pc \in {"call", "reauth", "backoff", "delay", "hung"}
             /\ rate_delay > 0
          THEN [Exit(@) EXCEPT !.pc = "cancelpace"]
          ELSE Cancelled(@)]
    /\ UNCHANGED <<integration, deadline, config, queues, workers, stopped, cmds, callers,
                   stopPc, stopTasks>>

\* the pacing sleep of a cancelled worker's finally block is over
CancelPaceWake(t) ==
    /\ tasks[t].pc = "cancelpace"
    /\ tasks' = [tasks EXCEPT ![t] = Cancelled(@)]
    /\ UNCHANGED <<integration, deadline, config, queues, workers, stopped, cmds, callers,
                   stopPc, stopTasks>>

\* the queue in an event loop whose owner may cancel worker tasks
NextCancel ==
    \/ Next
    \/ \E t \in 1..Len(tasks) : CancelWorker(t)
    \/ \E t \in 1..Len(tasks) : CancelPaceWake(t)

SpecCancel == Init /\ [][NextCancel]_vars

\* every step a worker task can take: the event loop runs a task that is
\* ready, a sleep ends, and an awaited remote call or re-authentication
\* callback comes to one of its outcomes (CallHangs is the outcome "never")
TaskStep(t) ==
    /\ t \in 1..Len(tasks)
    /\ \/ WorkerStart(t)
       \/ WorkerGet(t)
       \/ CallOk(t)
       \/ CallAuthError(t)
       \/ \E ok \in BOOLEAN : ReauthReturn(t, ok)
       \/ \E kind \in {"transport", "api"} : CallClientError(t, kind)
       \/ BackoffWake(t)
       \/ CallUnexpected(t)
       \/ CallHangs(t)
       \/ DelayWake(t)
       \/ PaceWake(t)

\* the asyncio event loop never leaves a runnable worker task unscheduled
FairSpec == Spec /\ \A t \in 1..MaxCmds : WF_vars(TaskStep(t))

\* a step of the coroutine of a waiting submit()
CallerStep(c) == c \in CmdIds /\ (Timeout(c) \/ Receive(c))

\* a waiting submit() is resumed when its future is done or its deadline,
\* which is finite, has come
FairCallerSpec == Spec /\ \A c \in 1..MaxCmds : WF_vars(CallerStep(c))

\* nor the coroutine of stop() once its gather is complete
FairStopSpec == FairSpec /\ WF_vars(StopReturn)

\* ------------------------------------------- the deadline of submit()

\* submit's signature: the timeout parameter is the argument passed, or 30.0
TimeoutParam(arg) == IF arg = Omitted THEN DefaultTimeout ELSE arg

\* variant of EffTimeout: `cmd.timeout or timeout`, a truthiness test
EffTimeoutTruthy(ct, to) == IF ct # None /\ ct # 0 THEN ct ELSE to

\* submit: `eff_timeout = cmd.timeout if cmd.timeout is not None else timeout`
EffTimeout(ct, to) == IF ct # None THEN ct ELSE to

\* a waiting submit() of a command with any timeout of its own, called with
\* any timeout argument or none, on a fresh queue
DeadlineInit ==
    /\ on_reauth = TRUE
    /\ rate_delay = 0
    /\ retry_backoff_base = 0
    /\ queues = <<>>
    /\ workers = <<>>
    /\ tasks = <<>>
    /\ stopped = FALSE
    /\ cmds = <<>>
    /\ callers = <<>>
    /\ stopPc = "idle"
    /\ stopTasks = {}
    /\ cmd_timeout \in {None} \cup 0..MaxTimeout
    /\ timeout_arg \in {Omitted, None} \cup 0..MaxTimeout
    /\ eff_timeout = NotComputed
    /\ integration = NoComponent

\* submit lines 78-80: the deadline handed to asyncio.wait_for
SubmitDeadline ==
    /\ eff_timeout = NotComputed
    /\ eff_timeout' = EffTimeout(cmd_timeout, TimeoutParam(timeout_arg))
    /\ UNCHANGED <<integration, cmd_timeout, timeout_arg, config, queues,
                   workers, tasks, stopped, cmds, callers, stopPc, stopTasks>>

DeadlineNext == SubmitDeadline

DeadlineSpec == DeadlineInit /\ [][DeadlineNext]_vars

\* ------------------------------------------- the other components
\* the queue as the integration constructs it, CommandQueue(client,
\* on_reauth=_reauth), before any command is submitted
QueueIdle ==
    /\ on_reauth = TRUE /\ rate_delay = 0 /\ retry_backoff_base = 0
    /\ queues = <<>> /\ workers = <<>> /\ tasks = <<>> /\ stopped = FALSE
    /\ cmds = <<>> /\ callers = <<>> /\ stopPc = "idle" /\ stopTasks = {}
    /\ cmd_timeout = None /\ timeout_arg = Omitted
    /\ eff_timeout = NotComputed

\* the variables of the queue and of the submit() studied on its own
queue_side == <<config, queues, workers, tasks, stopped, cmds, callers,
                stopPc, stopTasks, deadline>>

\* ----------------------------------------------- the entry lifecycle
\* async_register_services: `if hass.data.get(DOMAIN, {}).get(_FLAG)`
FlagIgnored(hd) == FALSE

FlagSet(hd) == hd.present /\ hd.flag

\* async_register_services(hass), called with the domain data hd that
\* async_setup_entry has just written the entry into, the registry srv and
\* the count n: returns at once when the flag is set, else registers the
\* ten services and stores the flag in hass.data[DOMAIN], next to the
\* entries
AsyncRegisterServices(hd, srv, n) ==
    IF FlagSet(hd)
    THEN [hass_data |-> hd, services |-> srv, reg_count |-> n]
    ELSE [hass_data |-> [hd EXCEPT !.flag = TRUE],
          services |-> srv \cup SERVICES,
          reg_count |-> n + 1]

\* async_unload_entry: `if not domain_data`, the dict that holds one key per
\* stored entry and, once services are registered, the flag key
DomainDataEmpty(hd) == hd.entries = {} /\ ~hd.flag

\* async_setup_entry up to its first await: hass.data.setdefault(DOMAIN, {})
\* and the call of client.authenticate_app
SetupStart(e) ==
    /\ entry_pc[e] = "not_loaded"
    /\ integration' =
          [integration EXCEPT
              !.hass_data = IF @.present THEN @
                            ELSE [present |-> TRUE, entries |-> {},
                                  flag |-> FALSE],
              !.entry_pc[e] = "setup_auth"]
    /\ UNCHANGED queue_side

\* authenticate_app raises AmbroAuthError or AmbroClientError: return False
SetupAuthFails(e) ==
    /\ entry_pc[e] = "setup_auth"
    /\ integration' = [integration EXCEPT !.entry_pc[e] = "not_loaded"]
    /\ UNCHANGED queue_side

\* authenticate_app returns: the entry's runtime data is stored under
\* hass.data[DOMAIN][entry_id] (a KeyError ends the setup when the domain
\* dict was removed meanwhile), the services are registered, and the
\* platforms are forwarded
SetupAuthOk(e) ==
    /\ entry_pc[e] = "setup_auth"
    /\ IF hass_data.present
       THEN LET r == AsyncRegisterServices(
                         [hass_data EXCEPT !.entries = @ \cup {e}],
                         services, reg_count)
            IN  integration' =
                    [integration EXCEPT !.hass_data = r.hass_data,
                                        !.services = r.services,
                                        !.reg_count = r.reg_count,
                                        !.entry_pc[e] = "setup_forward"]
       ELSE integration' = [integration EXCEPT !.entry_pc[e] = "not_loaded"]
    /\ UNCHANGED queue_side

\* async_forward_entry_setups returns: return True
SetupForwardDone(e) ==
    /\ entry_pc[e] = "setup_forward"
    /\ integration' = [integration EXCEPT !.entry_pc[e] = "loaded"]
    /\ UNCHANGED queue_side

\* async_unload_entry up to `await queue.stop()`
UnloadStart(e) ==
    /\ entry_pc[e] = "loaded"
    /\ integration' = [integration EXCEPT !.entry_pc[e] = "unload_stop"]
    /\ UNCHANGED queue_side

\* queue.stop() returns or raises (the exception is swallowed): on to
\* `await async_unload_platforms`
UnloadStopDone(e) ==
    /\ entry_pc[e] = "unload_stop"
    /\ integration' = [integration EXCEPT !.entry_pc[e] = "unload_platforms"]
    /\ UNCHANGED queue_side

\* async_unload_platforms returns: the entry is popped from the domain
\* data; if the domain data is then empty, async_unregister_services
\* removes the services and the flag, and hass.data[DOMAIN] is popped
UnloadFinish(e) ==
    /\ entry_pc[e] = "unload_platforms"
    /\ LET popped == [hass_data EXCEPT !.entries = @ \ {e}]
       IN  IF DomainDataEmpty(popped)
           THEN integration' =
                    [integration EXCEPT
                        !.services = @ \ SERVICES,
                        !.hass_data = [present |-> FALSE, entries |-> {},
                                       flag |-> FALSE],
                        !.entry_pc[e] = "not_loaded"]
           ELSE integration' =
                    [integration EXCEPT !.hass_data = popped,
                                        !.entry_pc[e] = "not_loaded"]
    /\ UNCHANGED queue_side

LifecycleInit == QueueIdle /\ integration = LifecycleIdle

LifecycleNext ==
    \E e \in EntryIds :
        \/ SetupStart(e)
        \/ SetupAuthFails(e)
        \/ SetupAuthOk(e)
        \/ SetupForwardDone(e)
        \/ UnloadStart(e)
        \/ UnloadStopDone(e)
        \/ UnloadFinish(e)

LifecycleSpec == LifecycleInit /\ [][LifecycleNext]_vars

\* the entries whose setup has stored their data and whose unload has not
\* yet removed it
Loaded == {e \in EntryIds :
              entry_pc[e] \in {"setup_forward", "loaded", "unload_stop",
                               "unload_platforms"}}

\* ------------------------------------------- the service handlers
\* _srv_thing_find / _srv_thing_list up to their await:
\* client.find_thing_by_imei(...) or client.list_things([imei]) is called
\* on the client itself, for the mower i of the entry
SrvDirectCall(i) ==
    /\ direct.pc = "idle"
    /\ integration' =
          [integration EXCEPT
              !.direct = [pc |-> "calling", imei |-> i, result |-> "none"]]
    /\ UNCHANGED queue_side

\* the client call of the handler returns or raises; the handler returns
\* the response, or the error dict of its except branch
SrvDirectReturn(kind) ==
    /\ direct.pc = "calling"
    /\ integration' =
          [integration EXCEPT
              !.direct = [pc |-> "idle", imei |-> "none",
                          result |-> CASE kind = "ok" -> "resp"
                                       [] kind = "auth" -> "auth_error"
                                       [] kind = "client" -> "api_error"
                                       [] OTHER -> "unexpected_error"]]
    /\ UNCHANGED queue_side

\* the eight handlers that go through _exec(queue.submit(Command(...)))
SrvQueued(i) == Submit(i, "method.exec", TRUE)

ServiceInit == QueueIdle /\ integration = HandlersIdle

\* the service handlers, the worker of the entry's queue, and the
\* queue.stop() of the unload; the entry's queue has no pacing and no
\* backoff sleep (rate_delay_sec and retry_backoff_base keep their default)
ServiceNext ==
    \/ \E i \in IMEIS : SrvQueued(i)
    \/ \E i \in IMEIS : SrvDirectCall(i)
    \/ \E kind \in {"ok", "auth", "client", "unexpected"} :
          SrvDirectReturn(kind)
    \/ \E t \in 1..Len(tasks) : WorkerStart(t)
    \/ \E t \in 1..Len(tasks) : WorkerGet(t)
    \/ \E t \in 1..Len(tasks) : CallOk(t)
    \/ \E t \in 1..Len(tasks) : CallAuthError(t)
    \/ \E t \in 1..Len(tasks), ok \in BOOLEAN : ReauthReturn(t, ok)
    \/ \E t \in 1..Len(tasks), kind \in {"transport", "api"} :
          CallClientError(t, kind)
    \/ \E t \in 1..Len(tasks) : CallUnexpected(t)
    \/ \E t \in 1..Len(tasks) : CallHangs(t)
    \/ Stop
    \/ StopReturn
    \/ \E c \in CmdIds : Timeout(c)
    \/ \E c \in CmdIds : Receive(c)

ServiceSpec == ServiceInit /\ [][ServiceNext]_vars

\* a queued command of mower i is in flight: a worker of i awaits the
\* remote client
QueuedInFlight(i) ==
    \E t \in 1..Len(tasks) :
        tasks[t].imei = i /\ tasks[t].pc \in {"call", "hung"}

\* ------------------------------------------------- the executor _exec
\* api_client.py: AmbroAuthError and AmbroTransportError derive from
\* AmbroClientError, which derives from Exception, as do asyncio's
\* TimeoutError and ValueError
Bases(cls) ==
    CASE cls = "AmbroAuthError" -> {"AmbroAuthError", "AmbroClientError",
                                    "Exception"}
      [] cls = "AmbroTransportError" -> {"AmbroTransportError",
                                         "AmbroClientError", "Exception"}
      [] cls = "AmbroClientError" -> {"AmbroClientError", "Exception"}
      [] cls = "TimeoutError" -> {"TimeoutError", "Exception"}
      [] cls = "ValueError" -> {"ValueError", "Exception"}
      [] OTHER -> {cls}

\* an `except base` clause catches an exception of class cls
Catches(base, cls) == base \in Bases(cls)

\* the last clause of _exec: `except Exception as exc`
CatchesNothingElse(cls) == FALSE

CatchesException(cls) == Catches("Exception", cls)

\* the success path of _exec: `if not return_response: return {}`, then
\* `return resp if isinstance(resp, dict) else {"success": True}`
ExecSuccess(resp, return_response) ==
    IF ~return_response
    THEN Dict(EmptyDict)
    ELSE IF resp.type = "dict" THEN resp ELSE Dict([success |-> TRUE])

\* _exec(awaitable, op_name, return_response=..., log_response=...) for an
\* awaitable that ends with `outcome`: the value returned, or the exception
\* that leaves _exec
Exec(outcome, return_response) ==
    IF outcome.kind = "ok"
    THEN ExecSuccess(outcome.resp, return_response)
    ELSE IF Catches("AmbroAuthError", outcome.exc)
    THEN Dict([success |-> FALSE, error |-> "auth: " \o outcome.msg])
    ELSE IF Catches("AmbroClientError", outcome.exc)
    THEN Dict([success |-> FALSE, error |-> "api: " \o outcome.msg])
    ELSE IF CatchesException(outcome.exc)
    THEN Dict([success |-> FALSE, error |-> "unexpected: " \o outcome.msg])
    ELSE [type |-> "raised", exc |-> outcome.exc]

\* the values queue.submit can deliver: a response dict, or something else
Responses ==
    {Dict([success |-> TRUE]), Dict([data |-> "d"]), Dict(EmptyDict),
     [type |-> "NoneType"], [type |-> "list"], [type |-> "str"]}

\* the ways the awaited queue.submit can end: with a value, or with an
\* exception carrying a message
Outcomes ==
    {[kind |-> "ok", resp |-> r] : r \in Responses}
    \cup {[kind |-> "raise", exc |-> x, msg |-> m] :
             x \in {"AmbroAuthError", "AmbroTransportError",
                    "AmbroClientError", "TimeoutError", "ValueError"},
             m \in {"", "boom"}}

ExecInit ==
    /\ QueueIdle
    /\ integration \in
          {[component |-> "executor", exec_call |-> c, exec_ret |-> NotRun] :
              c \in [outcome : Outcomes, return_response : BOOLEAN,
                     log_response : BOOLEAN]}

\* a handler runs `return await _exec(...)`
SrvExec ==
    /\ exec_ret = NotRun
    /\ integration' =
          [integration EXCEPT
              !.exec_ret = Exec(exec_call.outcome,
                                exec_call.return_response)]
    /\ UNCHANGED queue_side

ExecNext == SrvExec

ExecSpec == ExecInit /\ [][ExecNext]_vars

\* ------------------------------------------------ the state store
\* round(x, 6) of a float given in units of 1e-7: the nearest multiple of
\* 10 (the inputs drawn avoid the exact halves)
Round6(v) == ((v + 5) \div 10) * 10

\* _norm(v): round(float(v), 6), or None when float(v) raises (None, a
\* non-numeric str); float nan goes through float() and round() unchanged
Norm(v) ==
    CASE v.type = "float" -> Num(Round6(v.num))
      [] v.type = "nan" -> NaN
      [] v.type = "bool" -> Num(IF v.bool THEN 10000000 ELSE 0)
      [] OTHER -> PyNone

\* Python's a != b on these values: nan differs from everything, itself
\* included
PyNe(a, b) == a # b \/ a.type = "nan" \/ b.type = "nan"

\* bool(v)
Truthy(v) ==
    CASE v.type = "NoneType" -> FALSE
      [] v.type = "bool" -> v.bool
      [] v.type = "float" -> v.num # 0
      [] v.type = "dict" -> DOMAIN v.val # {}
      [] v.type = "str" -> v.str # ""
      [] OTHER -> TRUE

\* the coordinate block of _apply_state: both normalised values are there
\* and one of them differs from the stored one
LatLngDiffers(st, nlat, nlng) ==
    /\ nlat # PyNone /\ nlng # PyNone
    /\ (PyNe(st.latitude, nlat) \/ PyNe(st.longitude, nlng))

\* _apply_state(entry_id, store, lat, lng, connected, loc_updated, source,
\* info, position_source): the store after the call and the value returned
ApplyState(st, a) ==
    LET nlat == Norm(a.lat)
        nlng == Norm(a.lng)
        c1 == LatLngDiffers(st, nlat, nlng)
        s1 == IF c1 THEN [st EXCEPT !.latitude = nlat, !.longitude = nlng]
              ELSE st
        c2 == a.connected # PyNone
                  /\ PyNe(s1.connected, Bool(Truthy(a.connected)))
        s2 == IF c2 THEN [s1 EXCEPT !.connected = Bool(Truthy(a.connected))]
              ELSE s1
        c3 == a.loc_updated # PyNone /\ PyNe(s2.loc_updated, a.loc_updated)
        s3 == IF c3 THEN [s2 EXCEPT !.loc_updated = a.loc_updated] ELSE s2
        c4 == a.position_source # PyNone
                  /\ PyNe(s3.position_source, a.position_source)
        s4 == IF c4 THEN [s3 EXCEPT !.position_source = a.position_source]
              ELSE s3
        c5 == Truthy(a.info) /\ PyNe(s4.info, a.info)
        s5 == IF c5 THEN [s4 EXCEPT !.info = a.info] ELSE s4
        changed == c1 \/ c2 \/ c3 \/ c4 \/ c5
    IN  [store |-> IF changed THEN [s5 EXCEPT !.source = Str(a.source)]
                   ELSE s5,
         changed |-> changed]

\* the arguments _update_location_from_find / _update_location_from_list
\* extract from a response
ApplyArgs ==
    [lat : {PyNone, NaN, Str("x"), Num(12), Num(14), Num(20)},
     lng : {PyNone, Num(-16)},
     connected : {PyNone, Bool(TRUE), Num(0)},
     loc_updated : {PyNone, Str("t1")},
     position_source : {PyNone, Str("params.loc")},
     info : {Dict(EmptyDict), Dict([key |-> "K1"]), Dict([key |-> "K2"])},
     source : {"thing.find", "thing.list"}]

\* one call of _apply_state on the entry's store, the dispatcher signal
\* included
ApplyStep(a) ==
    /\ apply_last.n < MaxApplies
    /\ LET r == ApplyState(store, a)
       IN  integration' =
               [integration EXCEPT
                   !.store = r.store,
                   !.signals = IF r.changed THEN @ + 1 ELSE @,
                   !.apply_last = [args |-> a, ret |-> r.changed,
                                   n |-> @.n + 1]]
    /\ UNCHANGED queue_side

SensorsInit == QueueIdle /\ integration = SensorsIdle

SensorsNext == \E a \in ApplyArgs : ApplyStep(a)

SensorsSpec == SensorsInit /\ [][SensorsNext]_vars

\* the stored fields other than the source
Fields(st) == [st EXCEPT !.source = PyNone]

\* ------------------------------------------- the dispatch of _run
\* a merge that keeps p's value where both have the key
MergeLeftWins(p, q) ==
    [k \in DOMAIN p \cup DOMAIN q |-> IF k \in DOMAIN p THEN p[k] ELSE q[k]]

\* p | q on dicts: a new dict with the keys of both, q's value where both
\* have the key
Merge(p, q) ==
    [k \in DOMAIN p \cup DOMAIN q |-> IF k \in DOMAIN q THEN q[k] ELSE p[k]]

\* one attempt of _run(cmd): the client.call made (none for "delay",
\* which sleeps and returns) and the Command afterwards
RunCall(cmd) ==
    [cmd |-> cmd,
     call |->
        CASE cmd.op = "delay" -> NoCall
          [] cmd.op = "method.exec" ->
                [command |-> "method.exec",
                 params |-> Merge(cmd.params, [imei |-> cmd.imei])]
          [] cmd.op = "sms.send" ->
                [command |-> "sms.send",
                 params |-> Merge(cmd.params, [imei |-> cmd.imei])]
          [] cmd.op = "thing.find" ->
                [command |-> "thing.find", params |-> [imei |-> cmd.imei]]
          [] cmd.op = "thing.list" ->
                [command |-> "thing.list", params |-> cmd.params]
          [] OTHER -> [command |-> cmd.op, params |-> cmd.params]]

\* the operation names a Command can carry; "raw.op" stands for a name
\* _run has no branch for
RunOps == {"method.exec", "sms.send", "thing.find", "thing.list", "raw.op",
           "delay"}

\* Command.params: dicts over some of the keys "imei" and "method"
ParamDicts ==
    UNION {[K -> {"A", "X", "m1"}] : K \in SUBSET {"imei", "method"}}

DispatchInit ==
    /\ QueueIdle
    /\ integration \in
          {[component |-> "dispatch", run_cmd |-> c, run_pc |-> "ready",
            client_call |-> NoCall] :
              c \in [op : RunOps, imei : IMEIS, params : ParamDicts]}

\* the worker runs `await self._run(cmd)` up to the await of the client
RunStep ==
    /\ run_pc = "ready"
    /\ LET r == RunCall(run_cmd)
       IN  integration' =
               [integration EXCEPT !.client_call = r.call,
                                   !.run_cmd = r.cmd,
                                   !.run_pc = "done"]
    /\ UNCHANGED queue_side

DispatchNext == RunStep

DispatchSpec == DispatchInit /\ [][DispatchNext]_vars

\* ---------------------------------------------------- provisioning
\* a loop that would go on for one more pass
LoopExhaustedLate(a) == a >= AuthAttempts + 1

\* `for attempt in range(1, 11)`: pass a was the last one
LoopExhausted(a) == a >= AuthAttempts

\* the function is called: first pass of the loop, a candidate key is
\* generated and client.authenticate_app is awaited
ProvStart ==
    /\ prov_pc = "start"
    /\ integration' = [integration EXCEPT !.prov_attempt = 1,
                                          !.auth_calls = @ + 1,
                                          !.prov_pc = "auth"]
    /\ UNCHANGED queue_side

\* authenticate_app returns: client_key = candidate; break; `if not
\* client_key` is false (the key has 28 characters); the publication of the
\* client thing starts with client.call("thing.find", ...)
AuthOk ==
    /\ prov_pc = "auth"
    /\ integration' = [integration EXCEPT !.client_key = prov_attempt,
                                          !.prov_pc = "publish_find"]
    /\ UNCHANGED queue_side

\* authenticate_app raises AmbroAuthError:
\* await asyncio.sleep(0.1 * attempt)
AuthFailsAuth ==
    /\ prov_pc = "auth"
    /\ integration' = [integration EXCEPT !.auth_errors = @ + 1,
                                          !.slept = @ + prov_attempt,
                                          !.prov_pc = "sleep"]
    /\ UNCHANGED queue_side

\* authenticate_app raises another AmbroClientError:
\* return False, "cannot_connect"
AuthFailsClient ==
    /\ prov_pc = "auth"
    /\ integration' = [integration EXCEPT !.prov_pc = "returned",
                                          !.prov_result = "cannot_connect"]
    /\ UNCHANGED queue_side

\* the sleep ends: the next pass of the loop, or, after the last one,
\* `if not client_key: return False, "auth_failed"`
SleepWake ==
    /\ prov_pc = "sleep"
    /\ IF LoopExhausted(prov_attempt)
       THEN integration' =
                [integration EXCEPT
                    !.prov_pc = "returned",
                    !.prov_result = IF client_key = None THEN "auth_failed"
                                    ELSE @]
       ELSE integration' = [integration EXCEPT !.prov_attempt = @ + 1,
                                               !.auth_calls = @ + 1,
                                               !.prov_pc = "auth"]
    /\ UNCHANGED queue_side

\* thing.find by key returns: thing.update if found, thing.create if not
PublishFind(found) ==
    /\ prov_pc = "publish_find"
    /\ integration' =
          [integration EXCEPT
              !.prov_pc = IF found THEN "publish_update"
                          ELSE "publish_create"]
    /\ UNCHANGED queue_side

\* a call of the publication returns or raises (best-effort, the exception
\* is swallowed): client.find_thing_by_imei(imei) is awaited
PublishEnds ==
    /\ prov_pc \in {"publish_find", "publish_update", "publish_create"}
    /\ integration' = [integration EXCEPT !.prov_pc = "validate"]
    /\ UNCHANGED queue_side

\* find_thing_by_imei returns nothing: return False, "imei_not_found"
ValidateNotFound ==
    /\ prov_pc = "validate"
    /\ integration' = [integration EXCEPT !.prov_pc = "returned",
                                          !.prov_result = "imei_not_found"]
    /\ UNCHANGED queue_side

\* find_thing_by_imei raises AmbroClientError: return False, "cannot_connect"
ValidateFails ==
    /\ prov_pc = "validate"
    /\ integration' = [integration EXCEPT !.prov_pc = "returned",
                                          !.prov_result = "cannot_connect"]
    /\ UNCHANGED queue_side

\* find_thing_by_imei returns the mower: the first robot_client slot that
\* is free or holds our key is published (slot 0: none is, return at once)
ValidateOk(slot) ==
    /\ prov_pc = "validate"
    /\ integration' =
          [integration EXCEPT
              !.chosen_key = slot,
              !.prov_pc = IF slot = 0 THEN "returned" ELSE "bind",
              !.prov_result = IF slot = 0 THEN "ok" ELSE @]
    /\ UNCHANGED queue_side

\* attribute.publish returns or raises (best-effort):
\* return True, {"client_key": client_key}
BindEnds ==
    /\ prov_pc = "bind"
    /\ integration' = [integration EXCEPT !.prov_pc = "returned",
                                          !.prov_result = "ok"]
    /\ UNCHANGED queue_side

ProvisionInit == QueueIdle /\ integration = ProvisioningIdle

ProvisionNext ==
    \/ ProvStart
    \/ AuthOk
    \/ AuthFailsAuth
    \/ AuthFailsClient
    \/ SleepWake
    \/ \E found \in BOOLEAN : PublishFind(found)
    \/ PublishEnds
    \/ ValidateNotFound
    \/ ValidateFails
    \/ \E slot \in 0..ClientSlots : ValidateOk(slot)
    \/ BindEnds

ProvisionSpec == ProvisionInit /\ [][ProvisionNext]_vars

\* ------------------------------------------------------ state functions

\* the command is still waiting in its identity's queue
InQueue(c) ==
    \E k \in 1..Len(queues[cmds[c].imei]) : queues[cmds[c].imei][k] = c

\* some worker task has dequeued the command and not yet finished with it
Held(c) == \E t \in 1..Len(tasks) : tasks[t].cmd = c

\* a worker dequeued the command and is done with it
Finished(c) == ~InQueue(c) /\ ~Held(c)

\* the handle holds a result or a failure
Resolved(c) == cmds[c].future.state \in {"result", "exception"}

SameImei(c, d) == cmds[c].imei = cmds[d].imei

\* ------------------------------------------------------------------ C1
\* C1: per identity, commands are executed in submission order: while a
\* worker holds a command (any attempt, re-auth or backoff of it), every
\* later-submitted command of that identity is still queued (so none of its
\* attempts has been made) and no earlier-submitted one is queued or held;
\* and a handle is resolved only when the handles of all earlier-submitted
\* commands of that identity are no longer pending.
C1_SubmissionOrder ==
    \A c \in CmdIds : \A d \in CmdIds :
        (c < d /\ SameImei(c, d)) =>
            /\ Held(d) => Finished(c)
            /\ Held(c) => InQueue(d)
            /\ (InQueue(c) /\ InQueue(d)) =>
                  \A k, l \in 1..Len(queues[cmds[c].imei]) :
                     (queues[cmds[c].imei][k] = c /\
                      queues[cmds[c].imei][l] = d) => k < l
            /\ Resolved(d) =>
                  (Finished(c) /\ cmds[c].future.state # "pending")

\* two waited commands of one identity, the first resolved after retries,
\* the second resolved too
C1_Witness ==
    \E c \in CmdIds : \E d \in CmdIds :
        /\ c < d /\ SameImei(c, d)
        /\ Resolved(c) /\ cmds[c].future.val > 1
        /\ Resolved(d)

\* ------------------------------------------------------------------ C2
\* C2: at most one command of an identity is in flight: two tasks of the
\* same identity never hold a command at the same time.
C2_OneInFlight ==
    \A t \in 1..Len(tasks) : \A u \in 1..Len(tasks) :
        (tasks[t].imei = tasks[u].imei /\ tasks[t].cmd # 0 /\ tasks[u].cmd # 0)
            => t = u

\* a command is in re-authentication or backoff while the next command of
\* the same identity waits in the queue
C2_Witness ==
    \E t \in 1..Len(tasks) :
        /\ tasks[t].pc \in {"reauth", "backoff"}
        /\ \E c \in CmdIds : cmds[c].imei = tasks[t].imei /\ InQueue(c)

\* ------------------------------------------------------------------ C3
\* C3: a worker that has exited leaves no command in its queue that was
\* enqueued before the stop-sentinel: each of them was executed and its
\* handle resolved.
C3_DrainBeforeExit ==
    \A i \in DOMAIN workers :
        TaskDone(workers[i]) =>
            \A k \in 1..Len(queues[i]) : \A l \in 1..Len(queues[i]) :
                (k < l /\ queues[i][l] = STOP) => queues[i][k] = STOP

\* ------------------------------------------------------------------ C4
\* C4: _run calls the remote client at most max_retries + 1 times for a
\* command (attempt counts the calls made for the command in hand).
C4_AttemptBound ==
    \A t \in 1..Len(tasks) : tasks[t].attempt <= MaxRetries + 1

\* ------------------------------------------------------------------ C5
\* C5: a handle is settled at most once: once it holds a result or a
\* failure, or was cancelled by the caller's timeout, it never changes.
C5_SettledOnce ==
    [][\A c \in CmdIds :
          Done(cmds[c].future) => cmds'[c].future = cmds[c].future]_vars

\* the worker finished a command whose handle the caller's timeout had
\* cancelled
C5_Witness ==
    \E c \in CmdIds : cmds[c].future.state = "cancelled" /\ Finished(c)

\* ------------------------------------------------------------------ C6
\* C6 as stated: every command a worker has dequeued with a handle and is
\* done with has the handle resolved with the result or with the failure.
C6_ResolvedWhenFinished ==
    \A c \in CmdIds :
        (Finished(c) /\ cmds[c].future.state # "none") => Resolved(c)

\* C6 as amended: every command a worker has dequeued with a handle and is
\* done with has the handle resolved with the result or with the failure,
\* unless the caller's timeout cancelled the handle first, and then the
\* handle stays cancelled; the handle is never left pending.
C6_SettledWhenFinished ==
    \A c \in CmdIds :
        (Finished(c) /\ cmds[c].future.state # "none") =>
            (Resolved(c) \/ (cmds[c].future.state = "cancelled" /\
                             callers[c] = "timeout"))

\* a finished command whose handle holds the failure
C6_Witness ==
    \E c \in CmdIds : Finished(c) /\ cmds[c].future.state = "exception"

\* ------------------------------------------------------------------ C7
\* the step in which the re-authentication callback of task t returns true
\* and _run goes on with the same command
RetriedAfterReauth(t) ==
    /\ tasks'[t].pc = "call"
    /\ tasks'[t].cmd = tasks[t].cmd
    /\ tasks'[t].attempt = tasks[t].attempt + 1

\* the step in which the remote call of task t succeeds resolves the pending
\* handle with the result of that very call, and the task lets go of the
\* command (no further call for it)
ResolvedWithThisResult(t) ==
    LET c == tasks[t].cmd
    IN  /\ tasks'[t].cmd # c
        /\ MaySet(cmds[c].future) =>
              cmds'[c].future = [state |-> "result", kind |-> "ok",
                                 val |-> tasks[t].attempt]

\* the callback has been awaited once for each AmbroAuthError caught
ReauthOncePerAuthError ==
    \A t \in 1..Len(tasks) :
        tasks[t].reauths = (IF on_reauth THEN tasks[t].auths ELSE 0)

\* C7 as stated: whenever the call fails with session-invalid and the
\* callback returns true the command is retried; a successful call resolves
\* the handle with its result and ends the command; the callback runs once
\* per session-invalid failure.
C7_RetryAfterReauth ==
    /\ [][\A t \in 1..Len(tasks) :
             /\ ReauthReturn(t, TRUE) => RetriedAfterReauth(t)
             /\ CallOk(t) => ResolvedWithThisResult(t)]_vars
    /\ []ReauthOncePerAuthError

\* C7 as amended: the retry after a successful re-authentication happens
\* when the failed attempt is numbered at most max_retries + 1; on attempt
\* max_retries + 2 the callback is still awaited but the session-invalid
\* failure propagates.  A successful call resolves the handle, when it is
\* still pending, with its result and ends the command; the callback runs
\* once per session-invalid failure.
C7_RetryAfterReauthInBudget ==
    /\ [][\A t \in 1..Len(tasks) :
             /\ (ReauthReturn(t, TRUE) /\ tasks[t].attempt <= MaxRetries + 1)
                   => RetriedAfterReauth(t)
             /\ (ReauthReturn(t, TRUE) /\ tasks[t].attempt > MaxRetries + 1)
                   => (tasks'[t].cmd # tasks[t].cmd /\
                       (MaySet(cmds[tasks[t].cmd].future) =>
                           cmds'[tasks[t].cmd].future.kind = "auth"))
             /\ CallOk(t) => ResolvedWithThisResult(t)]_vars
    /\ []ReauthOncePerAuthError

\* attempt 1 failed with session-invalid, the callback ran once and returned
\* true, attempt 2 is being made
C7_Witness ==
    \E t \in 1..Len(tasks) :
        /\ tasks[t].pc = "call" /\ tasks[t].attempt = 2
        /\ tasks[t].auths = 1 /\ tasks[t].reauths = 1

\* ------------------------------------------------------------------ C8
\* C8: when the last attempt of a command fails with a transport error the
\* pending handle is resolved with that very failure (its kind and the
\* attempt that raised it), a transport failure held by a handle is always
\* the one of the exhausting attempt, and a caller that was given a failure
\* was given the one its handle holds.
C8_TransportFailurePropagates ==
    /\ [][\A t \in 1..Len(tasks) :
             (CallClientError(t, "transport") /\ tasks'[t].cmd # tasks[t].cmd
              /\ MaySet(cmds[tasks[t].cmd].future)) =>
                 cmds'[tasks[t].cmd].future =
                    [state |-> "exception", kind |-> "transport",
                     val |-> tasks[t].attempt]]_vars
    /\ [](\A c \in CmdIds :
             /\ cmds[c].future.kind = "transport" =>
                   (cmds[c].future.state = "exception" /\
                    cmds[c].future.val = MaxRetries + 2)
             /\ callers[c] = "exception" => cmds[c].future.state = "exception")

\* a waiting caller was given the transport failure of the last attempt
C8_Witness ==
    \E c \in CmdIds :
        /\ callers[c] = "exception"
        /\ cmds[c].future.kind = "transport"

\* ------------------------------------------------------------------ C9
\* C9: the timeout of a waiting submit() gives the caller Timeout and
\* touches neither the queues nor the workers; a command whose handle was
\* cancelled leaves the queue only from its head, taken by a worker that
\* dispatches it (attempt 1 of the remote call, or the sleep of a delay);
\* and while the queue is not stopped and no remote call hangs, a queued
\* command whose caller timed out does get taken by the worker.
C9_TimeoutKeepsCommand ==
    /\ [][\A c \in CmdIds :
             /\ Timeout(c) =>
                   (queues' = queues /\ tasks' = tasks /\
                    callers'[c] = "timeout")
             /\ (cmds[c].future.state = "cancelled" /\ InQueue(c) /\
                 ~(\E k \in 1..Len(queues'[cmds[c].imei]) :
                      queues'[cmds[c].imei][k] = c)) =>
                   (/\ Head(queues[cmds[c].imei]) = c
                    /\ \E t \in 1..Len(tasks) :
                          /\ tasks'[t].cmd = c
                          /\ tasks'[t].pc =
                                (IF cmds[c].op = "delay" THEN "delay"
                                 ELSE "call")
                          /\ tasks'[t].attempt =
                                (IF cmds[c].op = "delay" THEN 0 ELSE 1))]_vars
    /\ \A c \in 1..MaxCmds :
          (c \in CmdIds /\ cmds[c].future.state = "cancelled" /\ InQueue(c))
             ~> (c \in CmdIds /\
                 (~InQueue(c) \/ stopped \/
                  \E t \in 1..Len(tasks) : tasks[t].pc = "hung"))

\* the caller timed out while its command was queued behind another one, and
\* the command is still queued
C9_Witness ==
    \E c \in CmdIds :
        /\ callers[c] = "timeout" /\ cmds[c].future.state = "cancelled"
        /\ InQueue(c)
        /\ \E t \in 1..Len(tasks) :
              tasks[t].imei = cmds[c].imei /\ tasks[t].pc = "call"

\* ----------------------------------------------------------------- C10
\* C10: stop() does not wait on a worker that is blocked in a remote call
\* which never returns and whose caller has timed out.
C10_StopNotBlockedByHungCall ==
    ~(/\ stopPc = "waiting"
      /\ \E t \in stopTasks :
            /\ tasks[t].pc = "hung"
            /\ callers[tasks[t].cmd] = "timeout")

\* ----------------------------------------------------------------- C11
\* some worker of the command's own identity is blocked in a remote call that
\* never returns
OwnWorkerHung(c) ==
    \E t \in 1..Len(tasks) :
        tasks[t].imei = cmds[c].imei /\ tasks[t].pc = "hung"

\* C11: identities are independent.  Every queued or held command has a
\* worker of its own identity, and only that identity's tasks hold it; and
\* every submitted command is eventually finished by its worker unless its
\* own identity's worker hangs in a remote call or the queue is stopped with
\* the command still queued: a call of another identity that blocks, even
\* for ever, does not hold it up.
C11_IdentitiesIndependent ==
    /\ [](\A c \in CmdIds :
            /\ (InQueue(c) \/ Held(c)) =>
                  (/\ cmds[c].imei \in DOMAIN workers
                   /\ tasks[workers[cmds[c].imei]].imei = cmds[c].imei)
            /\ \A t \in 1..Len(tasks) :
                  tasks[t].cmd = c => tasks[t].imei = cmds[c].imei)
    /\ \A c \in 1..MaxCmds :
          (c \in CmdIds)
             ~> (c \in CmdIds /\
                 (Finished(c) \/ (stopped /\ InQueue(c)) \/ OwnWorkerHung(c)))

\* commands of two identities are in flight together: one is blocked for ever
\* in its remote call, the other, submitted later, was dispatched all the same
C11_Witness ==
    \E t \in 1..Len(tasks) : \E u \in 1..Len(tasks) :
        /\ tasks[t].imei # tasks[u].imei
        /\ tasks[t].pc = "hung"
        /\ tasks[u].pc = "call"
        /\ tasks[u].cmd > tasks[t].cmd

\* ----------------------------------------------------------------- C12
\* the step in which _run raises out of task t's command: an unexpected
\* exception, a client error with the retries used up, a session-invalid
\* error with no callback, or one whose re-authentication did not lead to a
\* retry
FailureStep(t) ==
    \/ CallUnexpected(t)
    \/ /\ ~MayRetry(tasks[t].attempt)
       /\ \E kind \in {"transport", "api"} : CallClientError(t, kind)
    \/ ~on_reauth /\ CallAuthError(t)
    \/ \E ok \in BOOLEAN :
          ~(ok /\ MayRetry(tasks[t].attempt)) /\ ReauthReturn(t, ok)

\* C12: a failed command does not end its worker.  In the step in which a
\* command fails, its pending handle gets the exception; the task ends in
\* that step only if the queue was stopped, and otherwise it is pacing,
\* waiting for an item, or already running the next command; with no pacing
\* and a non-empty queue it has taken exactly the head of its own queue.
\* After pacing the worker does the same.
C12_FailureKeepsWorker ==
    [][\A t \in 1..Len(tasks) :
          LET c == tasks[t].cmd
              i == tasks[t].imei
          IN  /\ FailureStep(t) =>
                    /\ MaySet(cmds[c].future) =>
                          cmds'[c].future.state = "exception"
                    /\ tasks'[t].cmd # c
                    /\ tasks'[t].pc = "done" => stopped
                    /\ ~stopped =>
                          tasks'[t].pc \in {"pace", "get", "call", "delay"}
                    /\ (~stopped /\ rate_delay = 0 /\ queues[i] # <<>>) =>
                          /\ tasks'[t].cmd = Head(queues[i])
                          /\ queues'[i] = Tail(queues[i])
              /\ (PaceWake(t) /\ ~tasks[t].exiting /\ ~stopped
                    /\ queues[i] # <<>>) =>
                    /\ tasks'[t].cmd = Head(queues[i])
                    /\ queues'[i] = Tail(queues[i])]_vars

\* a command failed, and the same worker holds the next command of that
\* identity
C12_Witness ==
    \E c \in CmdIds : \E d \in CmdIds :
        /\ c < d
        /\ SameImei(c, d)
        /\ cmds[c].future.state = "exception"
        /\ \E t \in 1..Len(tasks) :
              tasks[t].cmd = d /\ workers[cmds[c].imei] = t /\ Len(tasks) = 1

\* ----------------------------------------------------------------- C13
\* C13: once stop() has returned, submit() accepts nothing: no command is
\* added, no queue grows, and no caller starts to wait on a command that no
\* worker will serve.
C13_SubmitAfterStopRejected ==
    [][stopPc = "returned" =>
          /\ Len(cmds') = Len(cmds)
          /\ \A i \in DOMAIN queues' :
                i \in DOMAIN queues /\ Len(queues'[i]) <= Len(queues[i])
          /\ \A c \in DOMAIN callers' :
                callers'[c] = "waiting" => c \in DOMAIN callers]_vars

\* ----------------------------------------------------------------- C14
\* C14: when the re-authentication callback returns false or raises, the
\* command is not retried: in that very step the worker lets the command go
\* without another remote call, the command is in no queue afterwards, and
\* its pending handle is resolved with the session-invalid failure of the
\* attempt that failed.
C14_NoRetryAfterFailedReauth ==
    [][\A t \in 1..Len(tasks) :
          LET c == tasks[t].cmd
          IN  ReauthReturn(t, FALSE) =>
                /\ tasks'[t].cmd # c
                /\ \A u \in 1..Len(tasks') : tasks'[u].cmd # c
                /\ \A i \in DOMAIN queues' :
                      \A k \in 1..Len(queues'[i]) : queues'[i][k] # c
                /\ MaySet(cmds[c].future) =>
                      cmds'[c].future =
                         [state |-> "exception", kind |-> "auth",
                          val |-> tasks[t].attempt]
                /\ ~MaySet(cmds[c].future) => cmds' = cmds]_vars

\* with a callback configured, a handle holds the session-invalid failure of
\* the first attempt: the callback answered false and nothing was retried
C14_Witness ==
    /\ on_reauth
    /\ \E c \in CmdIds :
          cmds[c].future =
             [state |-> "exception", kind |-> "auth", val |-> 1]

\* ----------------------------------------------------------------- C15
\* C15: at most one live worker task per identity.  No two unfinished tasks
\* have the same identity, and an unfinished task is the one registered for
\* its identity; a step leaves the registered worker of every identity that
\* has a live one alone, and a step creates at most one task, and only for
\* an identity that has no live worker.
C15_OneLiveWorkerPerIdentity ==
    /\ [](\A t \in 1..Len(tasks) :
            ~TaskDone(t) =>
               /\ tasks[t].imei \in DOMAIN workers
               /\ workers[tasks[t].imei] = t
               /\ \A u \in 1..Len(tasks) :
                     (tasks[u].imei = tasks[t].imei /\ ~TaskDone(u)) => u = t)
    /\ [][/\ \A i \in DOMAIN workers :
                HasLiveWorker(i) => workers'[i] = workers[i]
          /\ Len(tasks') # Len(tasks) =>
                /\ Len(tasks') = Len(tasks) + 1
                /\ ~HasLiveWorker(tasks'[Len(tasks')].imei)]_vars

\* an identity's worker was cancelled and a later submit gave the identity a
\* new worker, which is the only live one
C15_Witness ==
    \E t \in 1..Len(tasks) : \E u \in 1..Len(tasks) :
        /\ t < u
        /\ tasks[t].imei = tasks[u].imei
        /\ tasks[t].pc = "cancelled"
        /\ tasks[u].pc = "call"

\* ----------------------------------------------------------------- C16
\* the command was submitted with wait = False
NoWait(c) == cmds[c].future.state = "none"

\* C16: submit() with wait = False returns at once and attaches no handle,
\* and the command is executed in its submission position.  A command has no
\* handle exactly when its submit() has returned None without waiting, and it
\* never gets one; the step that submits it appends it to the tail of its
\* identity's queue; it leaves the queue only from the head, taken by a
\* worker that dispatches it; while it is held every later command of the
\* identity is still queued and every earlier one is finished; and it is
\* eventually finished by its worker unless that worker hangs in a remote
\* call or the queue is stopped with the command still queued.
C16_NoWaitExecutedInOrder ==
    /\ [](\A c \in CmdIds : \A d \in CmdIds :
            /\ NoWait(c) <=> callers[c] = "returned"
            /\ (c < d /\ SameImei(c, d) /\ (NoWait(c) \/ NoWait(d))) =>
                  /\ Held(d) => Finished(c)
                  /\ Held(c) => InQueue(d))
    /\ [][/\ Len(cmds') = Len(cmds) + 1 =>
                LET n == Len(cmds')
                    i == cmds'[n].imei
                IN  cmds'[n].future.state = "none" =>
                       /\ callers'[n] = "returned"
                       /\ queues'[i] =
                             Append(IF i \in DOMAIN queues
                                    THEN queues[i] ELSE <<>>, n)
          /\ \A c \in CmdIds :
                NoWait(c) =>
                   /\ NoWait(c)'
                   /\ (InQueue(c) /\
                       ~(\E k \in 1..Len(queues'[cmds[c].imei]) :
                            queues'[cmds[c].imei][k] = c)) =>
                         (/\ Head(queues[cmds[c].imei]) = c
                          /\ \E t \in 1..Len(tasks) :
                                /\ tasks[t].imei = cmds[c].imei
                                /\ tasks'[t].cmd = c
                                /\ tasks'[t].pc =
                                      (IF cmds[c].op = "delay" THEN "delay"
                                       ELSE "call"))]_vars
    /\ \A c \in 1..MaxCmds :
          (c \in CmdIds /\ NoWait(c))
             ~> (c \in CmdIds /\
                 (Finished(c) \/ (stopped /\ InQueue(c)) \/ OwnWorkerHung(c)))

\* a command submitted with wait = False behind a waited one of the same
\* identity is in its remote call, after the waited one was resolved
C16_Witness ==
    \E c \in CmdIds : \E d \in CmdIds :
        /\ c < d /\ SameImei(c, d)
        /\ Resolved(c)
        /\ NoWait(d) /\ callers[d] = "returned"
        /\ \E t \in 1..Len(tasks) : tasks[t].cmd = d /\ tasks[t].pc = "call"

\* ----------------------------------------------------------------- C17
\* the number of stop-sentinels in a queue
Sentinels(q) == Cardinality({k \in 1..Len(q) : q[k] = STOP})

\* the step in which stop() is called
StopStep == stopPc = "idle" /\ stopPc' # "idle"

\* C17: stop() returns only after every worker task that existed when it was
\* called has terminated, puts exactly one sentinel on each known queue, and
\* does not fail on a worker that ended with an exception.  When stop() is
\* called every unfinished task is among those it waits for, no queue is
\* added or dropped, and every queue gets one sentinel appended; no other
\* step adds a sentinel and no queue ever holds two; once stop() has returned
\* every task it waited for is finished; and stop() never ends with an
\* exception, also when a task it waited for was cancelled.
C17_StopWaitsForWorkers ==
    /\ [](/\ stopPc = "returned" => \A t \in stopTasks : TaskDone(t)
          /\ stopPc # "failed"
          /\ \A i \in DOMAIN queues : Sentinels(queues[i]) <= 1)
    /\ [][/\ StopStep =>
                /\ \A t \in 1..Len(tasks) : ~TaskDone(t) => t \in stopTasks'
                /\ DOMAIN queues' = DOMAIN queues
                /\ \A i \in DOMAIN queues :
                      queues'[i] = Append(queues[i], STOP)
          /\ ~StopStep =>
                /\ stopTasks' = stopTasks
                /\ \A i \in DOMAIN queues :
                      Sentinels(queues'[i]) <= Sentinels(queues[i])
                /\ \A i \in DOMAIN queues' \ DOMAIN queues :
                      Sentinels(queues'[i]) = 0]_vars

\* stop() has returned after waiting for two workers, one that returned from
\* its loop and one that was cancelled
C17_Witness ==
    /\ stopPc = "returned"
    /\ \E t \in stopTasks : tasks[t].pc = "cancelled"
    /\ \E t \in stopTasks : tasks[t].pc = "done"

\* ----------------------------------------------------------------- C18
\* C18: the deadline of a waiting submit() is the command's own timeout when
\* that is set (whatever the caller passed), otherwise the timeout the caller
\* passed, otherwise the default of 30.
C18_EffectiveTimeout ==
    eff_timeout # NotComputed =>
        /\ cmd_timeout # None => eff_timeout = cmd_timeout
        /\ (cmd_timeout = None /\ timeout_arg # Omitted) =>
              eff_timeout = timeout_arg
        /\ (cmd_timeout = None /\ timeout_arg = Omitted) =>
              eff_timeout = DefaultTimeout

\* the command's own timeout of 0 won over a caller-supplied timeout of 5
C18_Witness ==
    /\ eff_timeout = 0
    /\ cmd_timeout = 0
    /\ timeout_arg = 5

\* ----------------------------------------------------------------- C19
\* C19: a worker task ends only by taking the stop-sentinel from the head of
\* its queue (directly, or after the pacing sleep that follows it) or by
\* cancellation, and a task that returns leaves no sentinel behind in its
\* queue.
C19_ExitOnlyBySentinel ==
    [][\A t \in 1..Len(tasks) :
          LET i == tasks[t].imei
          IN  (~TaskDone(t) /\ tasks'[t].pc \in {"done", "cancelled"}) =>
                \/ tasks'[t].pc = "cancelled"
                \/ /\ \/ tasks[t].exiting
                      \/ /\ queues[i] # <<>>
                         /\ Head(queues[i]) = STOP
                         /\ queues'[i] = Tail(queues[i])
                   /\ Sentinels(queues'[i]) = 0]_vars

\* ----------------------------------------------------------------- C20
\* C20: the attempt counter is per command and shared between the failure
\* kinds.  A worker that takes a new command starts it at attempt 1 (a delay
\* makes no attempt) with no session-invalid failure on its account, whatever
\* the previous command consumed; every further remote call of the same
\* command, after a re-authentication as after any other remote-call
\* failure, adds exactly one to the counter; and a remote-call failure and a
\* successful re-authentication are followed by a retry under the same
\* condition on the counter alone, so no command, whatever the mix of its
\* failures, goes beyond the one bound.
C20_SharedAttemptCounter ==
    /\ [](\A t \in 1..Len(tasks) :
            /\ tasks[t].attempt <= MaxRetries + 2
            /\ tasks[t].auths <= tasks[t].attempt)
    /\ [][\A t \in 1..Len(tasks) :
             LET c == tasks[t].cmd
                 d == tasks'[t].cmd
             IN  /\ (d # c /\ d # 0) =>
                       /\ tasks'[t].attempt =
                             (IF cmds[d].op = "delay" THEN 0 ELSE 1)
                       /\ tasks'[t].auths = 0
                 /\ (d = c /\ c # 0 /\ tasks'[t] # tasks[t]) =>
                       /\ tasks'[t].attempt \in
                             {tasks[t].attempt, tasks[t].attempt + 1}
                       /\ tasks'[t].pc = "call" =>
                             /\ tasks[t].pc \in {"call", "reauth", "backoff"}
                             /\ tasks'[t].attempt = tasks[t].attempt + 1
                             /\ tasks[t].attempt <= MaxRetries + 1
                       /\ tasks'[t].pc # "call" =>
                             tasks'[t].attempt = tasks[t].attempt
                 /\ (\/ ReauthReturn(t, TRUE)
                     \/ \E kind \in {"transport", "api"} :
                           CallClientError(t, kind)) =>
                       (d = c <=> tasks[t].attempt <= MaxRetries + 1)]_vars

\* a command is in the last remote call the bound allows, reached through
\* retries of both kinds: one after a re-authentication, the others after
\* other remote-call failures
C20_Witness ==
    \E t \in 1..Len(tasks) :
        /\ tasks[t].pc = "call"
        /\ tasks[t].attempt = MaxRetries + 2
        /\ tasks[t].auths = 1

\* ----------------------------------------------------------------- C21
\* C21: re-authentication is not serialized across workers.  A worker whose
\* remote call is in progress can always go on to invoke the callback when
\* the call raises session-invalid, whatever the other workers are doing, in
\* particular while another worker's callback is in progress; and the step
\* that invokes it puts this worker into the callback and leaves every other
\* worker as it was.
C21_ReauthNotSerialized ==
    /\ [](\A t \in 1..Len(tasks) :
            (on_reauth /\ tasks[t].pc = "call") => ENABLED CallAuthError(t))
    /\ [][\A t \in 1..Len(tasks) :
             (on_reauth /\ CallAuthError(t)) =>
                /\ tasks'[t].pc = "reauth"
                /\ \A u \in 1..Len(tasks) : u # t => tasks'[u] = tasks[u]]_vars

\* the callbacks invoked by the workers of two identities are both in
\* progress
C21_Witness ==
    \E t \in 1..Len(tasks) : \E u \in 1..Len(tasks) :
        /\ tasks[t].imei # tasks[u].imei
        /\ tasks[t].pc = "reauth"
        /\ tasks[u].pc = "reauth"

\* ----------------------------------------------------------------- C22
\* the op of the command is the explicit delay
IsDelay(c) == cmds[c].op = "delay"

\* C22: a delay command only sleeps.  The task that holds it is in the sleep
\* and nowhere else (not in a remote call, the callback or a backoff), with
\* no attempt and no session-invalid failure counted, and no other task holds
\* a command of the same identity while every later command of the identity
\* is still queued; a result in its handle is the empty result, and the step
\* that sets it is the end of the sleep; the sleep ends by letting the
\* command go, never by a retry; and the only step that adds a command is a
\* submit(), which never changes the op of a command.
C22_DelayOnlySleeps ==
    /\ [](\A c \in CmdIds :
            IsDelay(c) =>
               /\ cmds[c].future.state = "result" =>
                     cmds[c].future = [state |-> "result", kind |-> "none",
                                       val |-> 0]
               /\ \A t \in 1..Len(tasks) :
                     tasks[t].cmd = c =>
                        /\ tasks[t].pc = "delay"
                        /\ tasks[t].attempt = 0
                        /\ tasks[t].auths = 0
                        /\ tasks[t].reauths = 0
                        /\ \A u \in 1..Len(tasks) :
                              (u # t /\ tasks[u].cmd # 0) =>
                                 tasks[u].imei # tasks[t].imei
                        /\ \A d \in CmdIds :
                              (c < d /\ SameImei(c, d)) => InQueue(d))
    /\ [][/\ \A c \in CmdIds :
                /\ cmds'[c].op = cmds[c].op
                /\ cmds'[c].imei = cmds[c].imei
                /\ (IsDelay(c) /\ cmds'[c].future.state = "result"
                      /\ cmds[c].future.state # "result") =>
                      \E t \in 1..Len(tasks) :
                         tasks[t].cmd = c /\ DelayWake(t)
          /\ \A t \in 1..Len(tasks) :
                (tasks[t].pc = "delay" /\ tasks'[t] # tasks[t]) =>
                   (DelayWake(t) /\ tasks'[t].cmd # tasks[t].cmd)
          /\ Len(cmds') # Len(cmds) =>
                \E i \in IMEIS, op \in OPS, wait \in BOOLEAN :
                   Submit(i, op, wait)]_vars

\* a delay command has slept and resolved its handle with the empty result,
\* and the next command of the identity is now in its remote call
C22_Witness ==
    \E c \in CmdIds : \E d \in CmdIds :
        /\ c < d /\ SameImei(c, d)
        /\ IsDelay(c)
        /\ cmds[c].future = [state |-> "result", kind |-> "none", val |-> 0]
        /\ \E t \in 1..Len(tasks) : tasks[t].cmd = d /\ tasks[t].pc = "call"

\* ----------------------------------------------------------------- C23
\* C23: the backoff sleep.  A task is in a backoff sleep only with a positive
\* backoff base, and the sleep lasts base x attempt, the number of the attempt
\* that just failed; outside a backoff no sleep is pending.  A remote-client
\* failure other than session-invalid that is retried goes into that sleep
\* without counting a new attempt when the base is positive, and straight
\* into the next remote call when the base is zero.  The step that ends a
\* re-authentication never enters a backoff: when it retries, the next remote
\* call starts in that very step.
C23_BackoffSleep ==
    /\ [](\A t \in 1..Len(tasks) :
            IF tasks[t].pc = "backoff"
            THEN /\ retry_backoff_base > 0
                 /\ tasks[t].sleep = retry_backoff_base * tasks[t].attempt
            ELSE tasks[t].sleep = 0)
    /\ [][\A t \in 1..Len(tasks) :
             /\ (/\ MayRetry(tasks[t].attempt)
                 /\ \E kind \in {"transport", "api"} :
                       CallClientError(t, kind)) =>
                   IF retry_backoff_base > 0
                   THEN /\ tasks'[t].pc = "backoff"
                        /\ tasks'[t].sleep =
                              retry_backoff_base * tasks[t].attempt
                        /\ tasks'[t].attempt = tasks[t].attempt
                   ELSE /\ tasks'[t].pc = "call"
                        /\ tasks'[t].cmd = tasks[t].cmd
                        /\ tasks'[t].attempt = tasks[t].attempt + 1
             /\ (tasks[t].pc = "backoff" /\ tasks'[t] # tasks[t]) =>
                   /\ tasks'[t].pc = "call"
                   /\ tasks'[t].cmd = tasks[t].cmd
                   /\ tasks'[t].attempt = tasks[t].attempt + 1
             /\ (tasks[t].pc = "reauth" /\ tasks'[t] # tasks[t]) =>
                   /\ tasks'[t].pc # "backoff"
                   /\ tasks'[t].sleep = 0
                   /\ tasks'[t].cmd = tasks[t].cmd =>
                         (/\ tasks'[t].pc = "call"
                          /\ tasks'[t].attempt = tasks[t].attempt + 1)]_vars

\* a worker sleeps twice the backoff base after the second attempt failed,
\* the first having been retried after a re-authentication with no sleep
C23_Witness ==
    \E t \in 1..Len(tasks) :
        /\ tasks[t].pc = "backoff"
        /\ tasks[t].attempt = 2
        /\ tasks[t].auths = 1
        /\ tasks[t].sleep = 2 * retry_backoff_base

\* ----------------------------------------------------------------- C24
\* C24: queues and workers are created lazily, in pairs, and kept.  The
\* identities that have a queue are those that have a worker entry, and each
\* of them has had a command submitted; a step never drops a queue or a
\* worker entry, and adds one only for the identity of the command that this
\* step submits; and the queue of an identity is never replaced: a submit
\* appends to what the queue holds, also when it starts a new worker, and
\* every other step leaves a queue as it is, takes its head, or appends the
\* sentinel of stop().
C24_LazyQueueAndWorker ==
    /\ [](/\ DOMAIN queues = DOMAIN workers
          /\ \A i \in DOMAIN queues :
                /\ \E c \in CmdIds : cmds[c].imei = i
                /\ workers[i] \in 1..Len(tasks)
                /\ tasks[workers[i]].imei = i)
    /\ [][/\ DOMAIN queues \subseteq DOMAIN queues'
          /\ DOMAIN workers \subseteq DOMAIN workers'
          /\ \A i \in DOMAIN queues' \ DOMAIN queues :
                /\ Len(cmds') = Len(cmds) + 1
                /\ cmds'[Len(cmds')].imei = i
          /\ \A i \in DOMAIN queues :
                IF Len(cmds') = Len(cmds) + 1 /\ cmds'[Len(cmds')].imei = i
                THEN queues'[i] = Append(queues[i], Len(cmds'))
                ELSE \/ queues'[i] = queues[i]
                     \/ queues[i] # <<>> /\ queues'[i] = Tail(queues[i])
                     \/ StopStep /\ queues'[i] = Append(queues[i], STOP)]_vars

\* an identity's first worker has finished and a later submit has started a
\* second one, on the queue that still holds what was left in it
C24_Witness ==
    \E i \in DOMAIN queues :
        /\ Len(tasks) = 2
        /\ tasks[1].imei = i
        /\ TaskDone(1)
        /\ workers[i] = 2
        /\ Len(queues[i]) = 2
        /\ queues[i][2] = Len(cmds)

\* ----------------------------------------------------------------- C25
\* command c is neither held by a task nor in a queue after the step
GoneAfterStep(c) ==
    /\ \A u \in 1..Len(tasks') : tasks'[u].cmd # c
    /\ \A i \in DOMAIN queues' :
          \A k \in 1..Len(queues'[i]) : queues'[i][k] # c

\* C25 as stated: an unexpected failure of the remote call is not retried,
\* the remote client has been invoked exactly once for the command, and the
\* pending handle resolves with that failure.
C25_UnexpectedCalledOnce ==
    [][\A t \in 1..Len(tasks) :
          LET c == tasks[t].cmd
          IN  CallUnexpected(t) =>
                /\ tasks[t].attempt = 1
                /\ GoneAfterStep(c)
                /\ MaySet(cmds[c].future) =>
                      cmds'[c].future.kind = "unexpected"]_vars

\* C25, amended: an unexpected failure of the remote call is not retried and
\* not swallowed.  In the step in which the call fails the worker lets the
\* command go for good, so the failing call is the last one made for it (the
\* only one when the failure hits the first attempt), and the pending handle
\* gets that failure; a handle that is missing or cancelled changes nothing.
C25_UnexpectedNotRetried ==
    [][\A t \in 1..Len(tasks) :
          LET c == tasks[t].cmd
          IN  CallUnexpected(t) =>
                /\ GoneAfterStep(c)
                /\ MaySet(cmds[c].future) =>
                      cmds'[c].future =
                         [state |-> "exception", kind |-> "unexpected",
                          val |-> tasks[t].attempt]
                /\ ~MaySet(cmds[c].future) => cmds' = cmds]_vars

\* a handle holds an unexpected failure that hit the second remote call of
\* its command, the first having failed with a retryable client error
C25_Witness ==
    \E c \in CmdIds :
        cmds[c].future =
           [state |-> "exception", kind |-> "unexpected", val |-> 2]

\* ----------------------------------------------------------------- C26
\* C26 as stated: with no callback configured a session-invalid failure is
\* not retried, the remote client has been invoked exactly once for the
\* command, and the pending handle resolves with the session-invalid failure.
C26_AuthErrorCalledOnce ==
    [][\A t \in 1..Len(tasks) :
          LET c == tasks[t].cmd
          IN  (~on_reauth /\ CallAuthError(t)) =>
                /\ tasks[t].attempt = 1
                /\ GoneAfterStep(c)
                /\ MaySet(cmds[c].future) =>
                      cmds'[c].future.kind = "auth"]_vars

\* C26, amended: with no callback configured a session-invalid failure is
\* not retried, whatever is left of the retry budget.  No callback is ever
\* in progress; in the step in which the call fails the worker lets the
\* command go for good, so the failing call is the last one made for it (the
\* only one when the failure hits the first attempt), and the pending handle
\* gets the session-invalid failure; a handle that is missing or cancelled
\* changes nothing.
C26_AuthErrorNotRetried ==
    /\ [](~on_reauth =>
            \A t \in 1..Len(tasks) :
               tasks[t].pc # "reauth" /\ tasks[t].reauths = 0)
    /\ [][\A t \in 1..Len(tasks) :
             LET c == tasks[t].cmd
             IN  (~on_reauth /\ CallAuthError(t)) =>
                   /\ GoneAfterStep(c)
                   /\ MaySet(cmds[c].future) =>
                         cmds'[c].future =
                            [state |-> "exception", kind |-> "auth",
                             val |-> tasks[t].attempt]
                   /\ ~MaySet(cmds[c].future) => cmds' = cmds]_vars

\* with no callback configured, a handle holds the session-invalid failure of
\* the first remote call although the retry budget was untouched
C26_Witness ==
    /\ ~on_reauth
    /\ \E c \in CmdIds :
          cmds[c].future =
             [state |-> "exception", kind |-> "auth", val |-> 1]

\* ----------------------------------------------------------------- C27
\* some remote call never returns
SomeCallHung == \E t \in 1..Len(tasks) : tasks[t].pc = "hung"

\* when no remote call hangs, stop() does return, and every worker task does
\* end after it has
C27_StopEventuallyReturns ==
    /\ (stopPc = "waiting") ~> (stopPc = "returned" \/ SomeCallHung)
    /\ (stopPc = "returned")
          ~> (SomeCallHung \/ \A t \in 1..Len(tasks) : TaskDone(t))

\* C27: once stop() has returned, no worker task is live.
C27_NoLiveWorkerAfterStop ==
    stopPc = "returned" => \A t \in 1..Len(tasks) : TaskDone(t)

\* ----------------------------------------------------------------- C28
\* C28: a waiting submit() with a finite timeout terminates.  Whatever the
\* queue and the workers do, a waiting caller can always take a step: its
\* handle is resolved and it receives the outcome, or its deadline ends the
\* wait; a caller leaves the wait only with the result or the failure its
\* handle holds, or with Timeout, and stays out; and every waiting caller
\* does leave the wait.
C28_WaitTerminates ==
    /\ [](\A c \in CmdIds :
            /\ callers[c] = "waiting" => ENABLED CallerStep(c)
            /\ callers[c] \in {"result", "exception"} =>
                  cmds[c].future.state = callers[c]
            /\ callers[c] = "timeout" => cmds[c].future.state = "cancelled")
    /\ [][\A c \in CmdIds :
             callers[c] # "waiting" => callers'[c] = callers[c]]_vars
    /\ \A c \in 1..MaxCmds :
          (c \in CmdIds /\ callers[c] = "waiting")
             ~> (c \in CmdIds /\
                 callers[c] \in {"result", "exception", "timeout"})

\* a caller got Timeout while the worker that holds its command is blocked in
\* a remote call that never returns
C28_Witness ==
    \E c \in CmdIds :
        /\ callers[c] = "timeout"
        /\ \E t \in 1..Len(tasks) : tasks[t].cmd = c /\ tasks[t].pc = "hung"

\* ----------------------------------------------------------------- C29
\* C29: the outcome of a command whose caller has timed out is dropped.  In
\* the step in which a worker lets go of a command whose handle was
\* cancelled, no handle and no caller changes; the task ends in that step
\* only if the queue was stopped, and otherwise it is pacing, waiting for an
\* item, or already running the next command; with no pacing and a non-empty
\* queue it has taken exactly the head of its own queue.
C29_OutcomeDroppedAfterTimeout ==
    [][\A t \in 1..Len(tasks) :
          LET c == tasks[t].cmd
              i == tasks[t].imei
          IN  (/\ c # 0
               /\ cmds[c].future.state = "cancelled"
               /\ tasks'[t].cmd # c) =>
                 /\ callers[c] = "timeout"
                 /\ cmds' = cmds
                 /\ callers' = callers
                 /\ tasks'[t].pc = "done" => stopped
                 /\ ~stopped =>
                       tasks'[t].pc \in {"pace", "get", "call", "delay"}
                 /\ (~stopped /\ rate_delay = 0 /\ queues[i] # <<>>) =>
                       /\ tasks'[t].cmd = Head(queues[i])
                       /\ queues'[i] = Tail(queues[i])]_vars

\* the caller of a command timed out, the worker has finished the command
\* all the same, its handle is still cancelled, and the worker runs the next
\* command of the identity
C29_Witness ==
    \E c \in CmdIds : \E d \in CmdIds :
        /\ c < d /\ SameImei(c, d)
        /\ callers[c] = "timeout"
        /\ cmds[c].future.state = "cancelled"
        /\ Finished(c)
        /\ \E t \in 1..Len(tasks) : tasks[t].cmd = d /\ tasks[t].pc = "call"

\* ----------------------------------------------------------------- C30
\* the step is a submit() for identity i
SubmitStepFor(i) ==
    Len(cmds') = Len(cmds) + 1 /\ cmds'[Len(cmds')].imei = i

\* C30: a cancelled worker is replaced by the next submit(), on the same
\* queue.  A cancelled task changes no more and takes nothing from the queue.
\* The step that submits a command for an identity whose registered worker
\* was cancelled, the queue not being stopped, registers a new task for that
\* identity, about to start, and appends the command to what the queue held.
\* And at all times the commands of an identity are taken in the order of
\* their submission: while one is held, no earlier one is queued or held,
\* and two queued ones stand in submission order.
C30_ReplacementWorkerKeepsQueue ==
    /\ [](\A c \in CmdIds : \A d \in CmdIds :
            (c < d /\ SameImei(c, d)) =>
               /\ Held(d) => Finished(c)
               /\ (InQueue(c) /\ InQueue(d)) =>
                     \A k \in 1..Len(queues[cmds[c].imei]) :
                        \A l \in 1..Len(queues[cmds[c].imei]) :
                           (queues[cmds[c].imei][k] = c /\
                            queues[cmds[c].imei][l] = d) => k < l)
    /\ [][/\ \A t \in 1..Len(tasks) :
                tasks[t].pc = "cancelled" => tasks'[t] = tasks[t]
          /\ \A i \in DOMAIN workers :
                (/\ tasks[workers[i]].pc = "cancelled"
                 /\ ~stopped
                 /\ SubmitStepFor(i)) =>
                   /\ Len(tasks') = Len(tasks) + 1
                   /\ workers'[i] = Len(tasks')
                   /\ tasks'[Len(tasks')] = NewTask(i)
                   /\ queues'[i] = Append(queues[i], Len(cmds'))
          /\ \A i \in DOMAIN workers :
                (tasks[workers[i]].pc = "cancelled" /\ ~SubmitStepFor(i)) =>
                   \/ queues'[i] = queues[i]
                   \/ StopStep /\ queues'[i] = Append(queues[i], STOP)]_vars

\* the first worker of an identity was cancelled with a command pending in
\* the queue; the next submit started a second worker, which is now in the
\* remote call of the old command while the new one waits behind it
C30_Witness ==
    /\ ~stopped
    /\ Len(tasks) = 2
    /\ tasks[1].pc = "cancelled"
    /\ tasks[2].imei = tasks[1].imei
    /\ tasks[2].cmd = 1
    /\ tasks[2].pc = "call"
    /\ queues[tasks[2].imei] = <<2>>

\* ----------------------------------------------------------------- C31
\* C31: when the unload of the last loaded entry completes, the domain
\* services are unregistered and the domain's runtime data, flag included,
\* is cleared.
C31_LastUnloadClears ==
    [][\A e \in EntryIds :
          (UnloadFinish(e) /\ Loaded = {e})
              => /\ services' = {}
                 /\ ~hass_data'.present]_vars

\* ----------------------------------------------------------------- C32
\* C32: every service handler goes through the command queue: no handler's
\* call is at the remote client while a queued command of the same mower
\* is in flight, and a session-invalid failure returned to a handler
\* starts a re-authentication of the queue.
C32_ServicesSerializedByQueue ==
    /\ [](direct.pc = "calling" => ~QueuedInFlight(direct.imei))
    /\ [][SrvDirectReturn("auth")
            => \E t \in 1..Len(tasks) :
                   tasks'[t].reauths > tasks[t].reauths]_vars

\* ----------------------------------------------------------------- C33
\* C33 as stated: _exec never raises and always returns a dict; every
\* failure of the awaited submit becomes a dict with success = false and an
\* error text; a successful non-dict result becomes {"success": true}.
C33_ExecAlwaysSuccessDict ==
    exec_ret # NotRun =>
        /\ exec_ret.type = "dict"
        /\ exec_call.outcome.kind = "raise" =>
               /\ DOMAIN exec_ret.val = {"success", "error"}
               /\ exec_ret.val.success = FALSE
        /\ (exec_call.outcome.kind = "ok"
               /\ exec_call.outcome.resp.type # "dict") =>
               exec_ret.val = [success |-> TRUE]

\* the text _exec puts before the exception's message
ErrorPrefixes == {"auth: ", "api: ", "unexpected: "}

\* C33, amended: _exec never raises and always returns a dict; every
\* failure of the awaited submit becomes a dict with success = false and an
\* error text made of the failure's kind and message; a successful result
\* becomes {} when return_response is false, and otherwise the result
\* itself if it is a dict and {"success": true} if it is not.
C33_ExecAlwaysDict ==
    exec_ret # NotRun =>
        /\ exec_ret.type = "dict"
        /\ exec_call.outcome.kind = "raise" =>
               /\ DOMAIN exec_ret.val = {"success", "error"}
               /\ exec_ret.val.success = FALSE
               /\ \E pre \in ErrorPrefixes :
                      exec_ret.val.error = pre \o exec_call.outcome.msg
        /\ exec_call.outcome.kind = "ok" =>
               exec_ret.val =
                   IF ~exec_call.return_response THEN EmptyDict
                   ELSE IF exec_call.outcome.resp.type = "dict"
                        THEN exec_call.outcome.resp.val
                        ELSE [success |-> TRUE]

C33_Witness ==
    /\ exec_ret # NotRun
    /\ exec_call.outcome.kind = "raise"
    /\ exec_call.outcome.exc = "TimeoutError"
    /\ exec_ret = Dict([success |-> FALSE, error |-> "unexpected: boom"])

\* ----------------------------------------------------------------- C34
\* C34: when return_response is false, _exec returns the empty dict {}
\* whatever the outcome of the queued call.
C34_NoResponseReturnsEmpty ==
    (exec_ret # NotRun /\ ~exec_call.return_response)
        => exec_ret = Dict(EmptyDict)

\* ----------------------------------------------------------------- C35
\* C35: async_register_services is idempotent: a call made while the
\* domain-level flag is set registers nothing; however many entries are set
\* up, the registration of the ten services has run exactly once, and
\* whenever at least one entry is loaded all ten services are registered.
C35_RegisteredExactlyOnce ==
    /\ [](Loaded # {} => (services = SERVICES /\ reg_count = 1))
    /\ [](reg_count <= 1)
    /\ [][\A e \in EntryIds :
            (SetupAuthOk(e) /\ FlagSet(hass_data))
                => UNCHANGED <<services, reg_count>>]_vars

C35_Witness ==
    /\ Cardinality({e \in EntryIds : entry_pc[e] = "loaded"}) >= 2
    /\ services = SERVICES
    /\ reg_count = 1

\* ----------------------------------------------------------------- C36
\* C36: _apply_state sends the dispatcher signal and sets the store's
\* source if and only if at least one stored field changed, and applying
\* the same arguments a second time changes nothing, sends no signal and
\* returns false.
C36_ApplyOnChangeIdempotent ==
    [][apply_last'.n = apply_last.n + 1 =>
          /\ (signals' = signals + 1) <=> (Fields(store') # Fields(store))
          /\ (signals' # signals) => store'.source = Str(apply_last'.args.source)
          /\ (signals' = signals) => store'.source = store.source
          /\ apply_last'.args = apply_last.args =>
                 /\ store' = store
                 /\ signals' = signals
                 /\ apply_last'.ret = FALSE]_vars

\* the same statement for arguments whose coordinates are not nan
C36_IdempotentWithoutNaN ==
    [][(apply_last'.n = apply_last.n + 1 /\ apply_last'.args.lat # NaN) =>
          /\ (signals' = signals + 1) <=> (Fields(store') # Fields(store))
          /\ (signals' # signals) => store'.source = Str(apply_last'.args.source)
          /\ (signals' = signals) => store'.source = store.source
          /\ apply_last'.args = apply_last.args =>
                 /\ store' = store
                 /\ signals' = signals
                 /\ apply_last'.ret = FALSE]_vars

\* ----------------------------------------------------------------- C37
\* C37: the remote client is called with the shape of the operation:
\* method.exec and sms.send pass the command's parameters with imei set to
\* the command's identity, replacing an imei already there; thing.find
\* passes only the identity; thing.list and every other name that reaches
\* the client pass the parameters unchanged under that name (delay makes no
\* call); the command's own parameters are never changed.
C37_CallShape ==
    /\ [](run_pc = "done" =>
            LET p == run_cmd.params
                q == client_call.params
            IN  CASE run_cmd.op \in {"method.exec", "sms.send"} ->
                        /\ client_call.command = run_cmd.op
                        /\ DOMAIN q = DOMAIN p \cup {"imei"}
                        /\ q["imei"] = run_cmd.imei
                        /\ \A k \in DOMAIN p \ {"imei"} : q[k] = p[k]
                  [] run_cmd.op = "thing.find" ->
                        /\ client_call.command = "thing.find"
                        /\ DOMAIN q = {"imei"}
                        /\ q["imei"] = run_cmd.imei
                  [] run_cmd.op = "delay" -> client_call = NoCall
                  [] OTHER ->
                        /\ client_call.command = run_cmd.op
                        /\ q = p)
    /\ [][run_cmd' = run_cmd]_vars

C37_Witness ==
    /\ run_pc = "done"
    /\ run_cmd.op = "method.exec"
    /\ run_cmd.imei = "A"
    /\ DOMAIN run_cmd.params = {"imei", "method"}
    /\ run_cmd.params["imei"] = "X"
    /\ client_call.params["imei"] = "A"
    /\ client_call.params["method"] = "m1"

\* ----------------------------------------------------------------- C38
\* C38: provisioning makes at most 10 authentication attempts; it returns
\* auth_failed exactly when all 10 attempts failed with an authentication
\* error; it makes no attempt after the first successful one; on the first
\* other client error of an attempt it returns cannot_connect at once,
\* without a further attempt.
C38_AtMostTenAttempts ==
    /\ [](auth_calls <= AuthAttempts)
    /\ [](prov_result = "auth_failed"
            <=> (prov_pc = "returned" /\ auth_errors = AuthAttempts))
    /\ [](auth_errors = AuthAttempts =>
            (auth_calls = AuthAttempts /\ client_key = None))
    /\ [][client_key # None => auth_calls' = auth_calls]_vars
    /\ [][AuthOk => /\ auth_errors = auth_calls - 1
                    /\ client_key' = prov_attempt]_vars
    /\ [][AuthFailsClient =>
            /\ prov_pc' = "returned"
            /\ prov_result' = "cannot_connect"
            /\ auth_calls' = auth_calls]_vars
    /\ [][prov_pc = "returned" => auth_calls' = auth_calls]_vars

C38_Witness ==
    /\ prov_pc = "returned"
    /\ prov_result = "auth_failed"
    /\ auth_calls = AuthAttempts
    /\ auth_errors = AuthAttempts

====
